---- MODULE Spec2Model ----
(***************************************************************************)
(* Session & Delivery Engine of whatsapp-connect-v2 (apps/worker).         *)
(*                                                                         *)
(* Three state machines share this module (SpecInbound is the fan-out of   *)
(* SpecWebhook on its own):                                                *)
(*   SpecSession  - SessionManager (connect / disconnect / transport       *)
(*                  events / reconnect timers) with the device_commands    *)
(*                  worker and the startup reconnect sweep;                *)
(*   SpecWebhook  - inbound fan-out (handleMessagesUpsert) and the         *)
(*                  webhook_dispatch worker with its failed hook;          *)
(*   SpecOutbound - the outbound_messages worker with its failed hook.     *)
(* Every async function is cut at its awaits: one action per run of        *)
(* synchronous code, so that other tasks of the process interleave where   *)
(* the event loop lets them.                                               *)
(***************************************************************************)
EXTENDS Integers, Sequences, FiniteSets, TLC

\* ------------------------------------------------------------------ bounds
Devices == {"d1"}
\* devices that have a WaSession row, in the order findMany returns them
SweepList == <<"d1">>
\* sockets constructed by makeWASocket over one run of the worker
MaxSockets == 3

VARIABLES
  sessions,   \* SessionManager.sessions: deviceId -> entry
  socks,      \* every socket makeWASocket has constructed, in order
  device,     \* the Device rows
  calls,      \* connect() invocations suspended in their awaits, by caller
  timers,     \* pending setTimeout(() => connect(deviceId)) per device
  cmd,        \* the device_commands worker (concurrency 1)
  sweep,      \* reconnectAllInitializedDevices
  endpointEnabled, \* WebhookEndpoint.enabled of the tenant's endpoints
  events,     \* the Event rows, in creation order
  deliveries, \* the WebhookDelivery rows, in creation order
  jobs,       \* the webhook_dispatch job of each delivery, as the broker holds it
  posts,      \* HTTP POSTs issued so far for each delivery
  upsert,     \* handleMessagesUpsert: the batch being processed
  outRows,    \* the OutboundMessage rows
  outJobs,    \* the outbound_messages job of each row
  waStore,    \* WaSession.authStateEnc: does it hold entries of the sender
  auth,       \* per socket: its loadAuthState closure and its upsert handler
  runs,       \* the event handler invocations of the device, in delivery order
  eventLog,   \* <<run, message>> of each Event row the handlers created, in order
  links,      \* the PublicQrLink rows
  lastSeenAt, \* Device.lastSeenAt, in hours
  now,        \* the clock, in hours
  pipe,       \* one envelope on its way through normalizer and inbound handler
  box,        \* one string on its way through encryptString and decryptString
  store       \* one loadAuthState closure: key data, save timer, writes, row

sessionVars == <<sessions, socks, device, calls, timers, cmd, sweep>>
hookVars == <<endpointEnabled, events, deliveries, jobs, posts, upsert>>
outVars == <<outRows, outJobs>>
authVars == <<waStore, auth>>
flowVars == <<runs, eventLog>>
linkVars == <<links, lastSeenAt, now>>
libVars == <<pipe, box, store>>
vars == <<sessions, socks, device, calls, timers, cmd, sweep,
          endpointEnabled, events, deliveries, jobs, posts, upsert,
          outRows, outJobs, waStore, auth, runs, eventLog, links, lastSeenAt, now,
          pipe, box, store>>

\* ------------------------------------------------------- session manager
NoEntry == [present |-> FALSE, socket |-> 0, closing |-> FALSE]
Entry(s) == [present |-> TRUE, socket |-> s, closing |-> FALSE]

\* who called connect(): a device command, the sweep, a reconnect timer, or a
\* reconnect timer that was pending while a disconnect command was processed
Origins == {"cmd", "sweep", "timer", "timerD"}
CloseReasons == {"loggedOut", "connectionLost"}

NewDevice == [status |-> "OFFLINE", qr |-> "null", lastError |-> "null"]
\* ownedAtClose remembers, while a socket's close handler is suspended, whether
\* the map held this socket's entry, not closing, when the close event arrived
NewSocket(d) ==
  [dev |-> d, phase |-> "new", closeStep |-> "none", reason |-> "none",
   ownedAtClose |-> FALSE]

Live(s) == socks[s].phase # "ended"
LiveSockets(d) == {s \in 1..Len(socks) : socks[s].dev = d /\ Live(s)}
InFlight(d) == calls["cmd"][d] + calls["sweep"][d] + calls["timer"][d] + calls["timerD"][d]

SessionInit ==
  /\ sessions = [d \in Devices |-> NoEntry]
  /\ socks = <<>>
  /\ device = [d \in Devices |-> NewDevice]
  /\ calls = [o \in Origins |-> [d \in Devices |-> 0]]
  /\ timers = [d \in Devices |-> [plain |-> 0, disc |-> 0]]
  /\ cmd = [pc |-> "idle", dev |-> "d1"]
  /\ sweep = [pc |-> "delay", i |-> 1]

\* connect() without its has() check
ConnectCallNoCheck(o, d, cs) ==
  /\ device' = [device EXCEPT ![d].status = "OFFLINE", ![d].lastError = "null"]
  /\ calls' = [cs EXCEPT ![o][d] = @ + 1]

\* connect(deviceId) up to its first await: the has() check and the Device
\* write it issues; the call is then suspended in `calls`
ConnectCall(o, d, cs) ==
  IF sessions[d].present
  THEN /\ UNCHANGED device
       /\ calls' = cs
  ELSE /\ device' = [device EXCEPT ![d].status = "OFFLINE", ![d].lastError = "null"]
       /\ calls' = [cs EXCEPT ![o][d] = @ + 1]

\* a connect command ends the period "since the disconnect command": the calls
\* and timers marked as having seen a disconnect are ordinary ones again
Unmarked(cs, d) ==
  [cs EXCEPT !["timer"][d] = @ + cs["timerD"][d], !["timerD"][d] = 0]

\* what the caller of connect() does once the call has returned or thrown
CallerResumes(o) ==
  /\ cmd' = IF o = "cmd" THEN [cmd EXCEPT !.pc = "idle"] ELSE cmd
  /\ sweep' = IF o = "sweep"
              THEN (IF sweep.i >= Len(SweepList)
                    THEN [pc |-> "done", i |-> sweep.i]
                    ELSE [pc |-> "loop", i |-> sweep.i + 1])
              ELSE sweep

\* loadAuthState(deviceId): keysData as stored, no save pending; recon is the
\* position of the socket's messages.upsert handler after a reconcile signal;
\* evicted tells that keysData holds entries that clearSessionsForJids has
\* removed from the stored state since
\* rejected tells that the promise of a handler of the socket was rejected
NewAuth(d) ==
  [mem |-> waStore[d], saveTimer |-> FALSE, recon |-> "none", evicted |-> FALSE,
   rejected |-> FALSE]

\* connect(): the auth state is loaded, makeWASocket succeeded, the entry is
\* registered
ConnectFinishOk(o, d) ==
  /\ calls[o][d] > 0
  /\ Len(socks) < MaxSockets
  /\ socks' = Append(socks, NewSocket(d))
  /\ sessions' = [sessions EXCEPT ![d] = Entry(Len(socks) + 1)]
  /\ calls' = [calls EXCEPT ![o][d] = @ - 1]
  /\ CallerResumes(o)
  /\ auth' = Append(auth, NewAuth(d))
  /\ UNCHANGED <<device, timers, waStore>>
  /\ UNCHANGED <<hookVars, outVars, flowVars, linkVars, libVars>>

\* connect(): loading the state or constructing the socket threw
ConnectFinishErr(o, d) ==
  /\ calls[o][d] > 0
  /\ device' = [device EXCEPT ![d].status = "ERROR", ![d].lastError = "connect_error"]
  /\ calls' = [calls EXCEPT ![o][d] = @ - 1]
  /\ CallerResumes(o)
  /\ UNCHANGED <<sessions, socks, timers>>
  /\ UNCHANGED <<hookVars, outVars, authVars, flowVars, linkVars, libVars>>

\* device_commands job 'connect'
CmdConnect(d) ==
  /\ cmd.pc = "idle"
  /\ ConnectCall("cmd", d, Unmarked(calls, d))
  /\ cmd' = [pc |-> IF sessions[d].present THEN "return" ELSE "connect", dev |-> d]
  /\ timers' = [timers EXCEPT ![d] = [plain |-> @.plain + @.disc, disc |-> 0]]
  /\ UNCHANGED <<sessions, socks, sweep>>
  /\ UNCHANGED <<hookVars, outVars, authVars, flowVars, linkVars, libVars>>

\* the connect() of the command returned at its has() check: the job completes
CmdReturn ==
  /\ cmd.pc = "return"
  /\ cmd' = [cmd EXCEPT !.pc = "idle"]
  /\ UNCHANGED <<sessions, socks, device, calls, timers, sweep>>
  /\ UNCHANGED <<hookVars, outVars, authVars, flowVars, linkVars, libVars>>

\* the socket's end(): the transport closes and emits connection.update{close},
\* whose handler runs up to its first await (the Device write)
EndSocket(ss, s, why) ==
  IF ss[s].phase = "ended" THEN ss
  ELSE [ss EXCEPT ![s].phase = "ended", ![s].closeStep = "pending", ![s].reason = why]

\* device_commands job 'disconnect' -> SessionManager.disconnect
CmdDisconnect(d) ==
  /\ cmd.pc = "idle"
  /\ timers' = [timers EXCEPT ![d] = [plain |-> 0, disc |-> @.plain + @.disc]]
  /\ calls' = [calls EXCEPT !["timerD"][d] = @ + calls["timer"][d], !["timer"][d] = 0]
  /\ IF ~sessions[d].present
     THEN UNCHANGED <<sessions, socks, device>>
     ELSE LET s == sessions[d].socket IN
          /\ socks' = EndSocket(socks, s, "disconnect")
          /\ sessions' = [sessions EXCEPT ![d] = NoEntry]
          /\ device' = [device EXCEPT
                          ![d].status = "OFFLINE",
                          ![d].qr = "null",
                          ![d].lastError = IF Live(s) THEN "disconnect" ELSE @]
  /\ UNCHANGED <<cmd, sweep>>
  /\ UNCHANGED <<hookVars, outVars, authVars, flowVars, linkVars, libVars>>

\* connection.update{connection: 'connecting'}
SockConnecting(s) ==
  /\ socks[s].phase = "new"
  /\ socks' = [socks EXCEPT ![s].phase = "connecting"]
  /\ device' = [device EXCEPT ![socks[s].dev].status = "OFFLINE",
                              ![socks[s].dev].lastError = "null"]
  /\ UNCHANGED <<sessions, calls, timers, cmd, sweep>>
  /\ UNCHANGED <<hookVars, outVars, authVars, flowVars, linkVars, libVars>>

\* connection.update{connection: 'connecting'} whose Device write throws: the
\* handler's catch records ERROR; the socket goes on connecting
SockConnectingErr(s) ==
  /\ socks[s].phase = "new"
  /\ socks' = [socks EXCEPT ![s].phase = "connecting"]
  /\ device' = [device EXCEPT ![socks[s].dev].status = "ERROR",
                              ![socks[s].dev].lastError = "connection.update_error"]
  /\ UNCHANGED <<sessions, calls, timers, cmd, sweep>>
  /\ UNCHANGED <<hookVars, outVars, authVars, flowVars, linkVars, libVars>>

\* connection.update{qr}
SockQr(s) ==
  /\ socks[s].phase = "connecting"
  /\ socks' = [socks EXCEPT ![s].phase = "qr"]
  /\ device' = [device EXCEPT ![socks[s].dev] =
                  [status |-> "QR", qr |-> "code", lastError |-> "null"]]
  /\ UNCHANGED <<sessions, calls, timers, cmd, sweep>>
  /\ UNCHANGED <<hookVars, outVars, authVars, flowVars, linkVars, libVars>>

\* publicQrLink.updateMany({ where: { deviceId, expiresAt: { gt: now } },
\* data: { expiresAt: now } })
ExpireLinksKeep(ls, d, t) == ls
ExpireLinks(ls, d, t) ==
  [i \in 1..Len(ls) |->
     IF ls[i].dev = d /\ ls[i].expiresAt > t THEN [ls[i] EXCEPT !.expiresAt = t] ELSE ls[i]]

\* connection.update{connection: 'open'}
SockOpen(s) ==
  /\ socks[s].phase \in {"connecting", "qr"}
  /\ socks' = [socks EXCEPT ![s].phase = "open"]
  /\ device' = [device EXCEPT ![socks[s].dev] =
                  [status |-> "ONLINE", qr |-> "null", lastError |-> "null"]]
  /\ lastSeenAt' = [lastSeenAt EXCEPT ![socks[s].dev] = now]
  /\ links' = ExpireLinks(links, socks[s].dev, now)
  /\ UNCHANGED <<sessions, calls, timers, cmd, sweep, now>>
  /\ UNCHANGED <<hookVars, outVars, authVars, flowVars, libVars>>

\* connection.update{connection: 'open'} whose Device write throws: the
\* handler's catch records ERROR and the message, and writes no other column
SockOpenErr(s) ==
  /\ socks[s].phase \in {"connecting", "qr"}
  /\ socks' = [socks EXCEPT ![s].phase = "open"]
  /\ device' = [device EXCEPT ![socks[s].dev].status = "ERROR",
                              ![socks[s].dev].lastError = "connection.update_error"]
  /\ UNCHANGED <<sessions, calls, timers, cmd, sweep>>
  /\ UNCHANGED <<hookVars, outVars, authVars, flowVars, linkVars, libVars>>

\* connection.update{connection: 'close'} raised by the transport: the handler
\* records the reason on the Device row and suspends
SockClose(s, reason) ==
  /\ Live(s)
  /\ socks' = [EndSocket(socks, s, reason) EXCEPT
                 ![s].ownedAtClose = /\ sessions[socks[s].dev].present
                                     /\ sessions[socks[s].dev].socket = s
                                     /\ ~sessions[socks[s].dev].closing]
  /\ device' = [device EXCEPT ![socks[s].dev] =
                  [status |-> "OFFLINE", qr |-> "null", lastError |-> reason]]
  /\ UNCHANGED <<sessions, calls, timers, cmd, sweep>>
  /\ UNCHANGED <<hookVars, outVars, authVars, flowVars, linkVars, libVars>>

\* CloseDecision with a reconnect only for a session that was never reconnected
CloseDecisionOnce(s) ==
  LET d == socks[s].dev
      current == sessions[d]
  IN IF ~current.present \/ current.closing
     THEN UNCHANGED <<sessions, timers>>
     ELSE IF socks[s].reason # "loggedOut" /\ s = 1
          THEN /\ sessions' = [sessions EXCEPT ![d] = NoEntry]
               /\ timers' = [timers EXCEPT ![d].plain = @ + 1]
          ELSE /\ sessions' = [sessions EXCEPT ![d] = NoEntry]
               /\ UNCHANGED timers

\* the close handler after its awaits: the reconnect decision
CloseDecision(s) ==
  LET d == socks[s].dev
      current == sessions[d]
  IN IF ~current.present \/ current.closing
     THEN UNCHANGED <<sessions, timers>>
     ELSE IF socks[s].reason # "loggedOut"
          THEN /\ sessions' = [sessions EXCEPT ![d] = NoEntry]
               /\ timers' = [timers EXCEPT ![d].plain = @ + 1]
          ELSE /\ sessions' = [sessions EXCEPT ![d] = NoEntry]
               /\ UNCHANGED timers

CloseResume(s) ==
  /\ socks[s].closeStep = "pending"
  /\ socks' = [socks EXCEPT ![s].closeStep = "done",
                             ![s].reason = IF @ = "loggedOut" THEN @ ELSE "none",
                             ![s].ownedAtClose = FALSE]
  /\ CloseDecision(s)
  /\ UNCHANGED <<device, calls, cmd, sweep>>
  /\ UNCHANGED <<hookVars, outVars, authVars, flowVars, linkVars, libVars>>

\* setTimeout(() => void this.connect(deviceId), 2000) fires
TimerFire(d, tag) ==
  /\ timers[d][tag] > 0
  /\ timers' = [timers EXCEPT ![d][tag] = @ - 1]
  /\ ConnectCall(IF tag = "disc" THEN "timerD" ELSE "timer", d, calls)
  /\ UNCHANGED <<sessions, socks, cmd, sweep>>
  /\ UNCHANGED <<hookVars, outVars, authVars, flowVars, linkVars, libVars>>

\* reconnectAllInitializedDevices: the startup delay elapses, findMany
SweepStart ==
  /\ sweep.pc = "delay"
  /\ sweep' = [pc |-> "loop", i |-> 1]
  /\ UNCHANGED <<sessions, socks, device, calls, timers, cmd>>
  /\ UNCHANGED <<hookVars, outVars, authVars, flowVars, linkVars, libVars>>

\* one iteration of the sweep's loop
SweepVisit ==
  /\ sweep.pc = "loop"
  /\ LET id == SweepList[sweep.i] IN
       IF sessions[id].present
       THEN /\ sweep' = IF sweep.i >= Len(SweepList)
                        THEN [pc |-> "done", i |-> sweep.i]
                        ELSE [pc |-> "loop", i |-> sweep.i + 1]
            /\ UNCHANGED <<device, calls>>
       ELSE /\ ConnectCall("sweep", id, calls)
            /\ sweep' = [sweep EXCEPT !.pc = "connect"]
  /\ UNCHANGED <<sessions, socks, timers, cmd>>
  /\ UNCHANGED <<hookVars, outVars, authVars, flowVars, linkVars, libVars>>

\* ------------------------------------- startup sweep over several devices
\* devices with a WaSession row when the worker starts
MaxSweepDevices == 3
SweepIds == 1..MaxSweepDevices
\* what prisma.device.findMany can return: the devices with a session row, each
\* once, in some order
SweepLists ==
  {l \in UNION {[1..n -> SweepIds] : n \in 0..MaxSweepDevices} :
     \A i, j \in 1..Len(l) : i # j => l[i] # l[j]}
\* the loop goes to its next turn, or the function returns after the last one
SweepAdvance(sw, wait) ==
  IF sw.i >= Len(sw.list)
  THEN [sw EXCEPT !.pc = "done"]
  ELSE IF wait THEN [sw EXCEPT !.pc = "stagger"]
  ELSE [sw EXCEPT !.pc = "loop", !.i = @ + 1]
SweepStep(sw) ==
  /\ sweep' = sw
  /\ UNCHANGED <<sessions, socks, device, calls, timers, cmd>>
  /\ UNCHANGED <<hookVars, outVars, authVars, flowVars, linkVars, libVars>>
\* the delay is over and findMany has answered; entries holds the devices that
\* have a session entry (commands served during the delay made some), called
\* the devices connect() was called for, skipped those passed over, logged
\* those whose failure was logged
SweepFind(list, entries) ==
  /\ sweep.pc = "delay"
  /\ SweepStep([pc |-> IF list = <<>> THEN "done" ELSE "loop", i |-> 1, list |-> list,
                entries |-> entries, called |-> <<>>, skipped |-> {}, logged |-> {}])
\* a connect command for a device of the list is served while the sweep waits
SweepCommandConnects(d) ==
  /\ sweep.pc \in {"stagger", "connect"}
  /\ d \notin sweep.entries
  /\ \E k \in 1..Len(sweep.list) : sweep.list[k] = d
  /\ sweep.pc = "connect" => sweep.list[sweep.i] # d
  /\ SweepStep([sweep EXCEPT !.entries = @ \cup {d}])
\* if (sessionManager.get(id)) continue, else connect(id) is called
SweepTurn ==
  /\ sweep.pc = "loop"
  /\ LET id == sweep.list[sweep.i] IN
       IF id \in sweep.entries
       THEN SweepStep(SweepAdvance([sweep EXCEPT !.skipped = @ \cup {id}], FALSE))
       ELSE SweepStep([sweep EXCEPT !.pc = "connect", !.called = Append(@, id)])
\* connect(id) returned
SweepConnectOk ==
  /\ sweep.pc = "connect"
  /\ SweepStep(SweepAdvance([sweep EXCEPT !.entries = @ \cup {sweep.list[sweep.i]}], TRUE))
\* a sweep whose loop has no try/catch of its own: the failure ends the sweep
SweepConnectThrowEnds ==
  /\ sweep.pc = "connect"
  /\ SweepStep([sweep EXCEPT !.pc = "done", !.logged = @ \cup {sweep.list[sweep.i]}])
\* connect(id) threw: the catch logs the failure
SweepConnectThrow ==
  /\ sweep.pc = "connect"
  /\ SweepStep(SweepAdvance([sweep EXCEPT !.logged = @ \cup {sweep.list[sweep.i]}], TRUE))
\* the stagger wait is over
SweepStaggerDone ==
  /\ sweep.pc = "stagger"
  /\ SweepStep([sweep EXCEPT !.pc = "loop", !.i = @ + 1])

SweepProgress ==
  \/ \E list \in SweepLists :
       \E entries \in SUBSET {list[k] : k \in 1..Len(list)} : SweepFind(list, entries)
  \/ SweepTurn
  \/ SweepConnectOk
  \/ SweepConnectThrow
  \/ SweepStaggerDone
SweepNext ==
  \/ SweepProgress
  \/ \E d \in SweepIds : SweepCommandConnects(d)

\* ------------------------------------------- inbound fan-out and webhooks
Endpoints == {"e1", "e2"}
\* the order in which webhookEndpoint.findMany lists the tenant's endpoints
EndpointOrder == <<"e1", "e2">>
\* messages of one messages.upsert
MaxBatch == 2
\* Event rows created over one run of the fan-out alone
MaxInboundEvents == 3
\* Event and WebhookDelivery rows created over one run with the dispatch worker
MaxHookEvents == 1
MaxHookDeliveries == 2
\* webhookQueue.add(..., { attempts: 5, ... })
WebhookAttempts == 5

EnabledNow == {e \in Endpoints : endpointEnabled[e]}
IsEnabled(e) == endpointEnabled[e]

IdleUpsert == [pc |-> "idle", left |-> 0, snapshot |-> <<>>, todo |-> <<>>]

HookInit ==
  /\ endpointEnabled = [e \in Endpoints |-> TRUE]
  /\ events = <<>>
  /\ deliveries = <<>>
  /\ jobs = <<>>
  /\ posts = <<>>
  /\ upsert = IdleUpsert

\* PATCH /webhooks/:id { enabled }
PatchEndpoint(e) ==
  /\ endpointEnabled' = [endpointEnabled EXCEPT ![e] = ~@]
  /\ UNCHANGED <<events, deliveries, jobs, posts, upsert>>
  /\ UNCHANGED <<sessionVars, outVars, authVars, flowVars, linkVars, libVars>>

\* the endpoints handleMessagesUpsert fans out to
FanOutList == SelectSeq(EndpointOrder, IsEnabled)

\* handleMessagesUpsert is called with n messages that pass its filter: the
\* device and the enabled endpoints are read once, before the loop
UpsertStart(n, maxEvents, maxDeliveries) ==
  /\ upsert.pc = "idle"
  /\ Len(events) + n <= maxEvents
  /\ Len(deliveries) + n * Len(FanOutList) <= maxDeliveries
  /\ upsert' = [pc |-> "msg", left |-> n, snapshot |-> FanOutList, todo |-> <<>>]
  /\ UNCHANGED <<endpointEnabled, events, deliveries, jobs, posts>>
  /\ UNCHANGED <<sessionVars, outVars, authVars, flowVars, linkVars, libVars>>

\* prisma.event.create for the next message of the batch.  enabledAtCreate
\* records which endpoints are enabled at this moment.
NewEvent == [type |-> "message.inbound", enabledAtCreate |-> EnabledNow, fannedOut |-> FALSE]

UpsertCreateEvent ==
  /\ upsert.pc = "msg"
  /\ events' = Append(events, NewEvent)
  /\ upsert' = [upsert EXCEPT !.pc = "fan", !.todo = upsert.snapshot]
  /\ UNCHANGED <<endpointEnabled, deliveries, jobs, posts>>
  /\ UNCHANGED <<sessionVars, outVars, authVars, flowVars, linkVars, libVars>>

NewDelivery(e, ev) ==
  [endpoint |-> e, event |-> ev, status |-> "PENDING", attempts |-> 0,
   lastError |-> "null", nextRetryAt |-> "null"]
NoJob == [state |-> "none", attemptsMade |-> 0]

\* prisma.webhookDelivery.create for the next endpoint of the list
UpsertCreateDelivery ==
  /\ upsert.pc = "fan"
  /\ upsert.todo # <<>>
  /\ deliveries' = Append(deliveries, NewDelivery(Head(upsert.todo), Len(events)))
  /\ jobs' = Append(jobs, NoJob)
  /\ posts' = Append(posts, 0)
  /\ upsert' = [upsert EXCEPT !.pc = "enqueue"]
  /\ UNCHANGED <<endpointEnabled, events>>
  /\ UNCHANGED <<sessionVars, outVars, authVars, flowVars, linkVars, libVars>>

\* webhookQueue.add('deliver', { deliveryId }, { attempts: 5, ... })
UpsertEnqueue ==
  /\ upsert.pc = "enqueue"
  /\ jobs' = [jobs EXCEPT ![Len(jobs)] = [state |-> "waiting", attemptsMade |-> 0]]
  /\ upsert' = [upsert EXCEPT !.pc = "fan", !.todo = Tail(upsert.todo)]
  /\ UNCHANGED <<endpointEnabled, events, deliveries, posts>>
  /\ UNCHANGED <<sessionVars, outVars, authVars, flowVars, linkVars, libVars>>

\* the fan-out loop of one message is over: lastSeenAt, next message or return
UpsertMessageDone ==
  /\ upsert.pc = "fan"
  /\ upsert.todo = <<>>
  /\ events' = [events EXCEPT ![Len(events)].fannedOut = TRUE]
  /\ upsert' = IF upsert.left = 1 THEN IdleUpsert
               ELSE [upsert EXCEPT !.pc = "msg", !.left = @ - 1]
  /\ UNCHANGED <<endpointEnabled, deliveries, jobs, posts>>
  /\ UNCHANGED <<sessionVars, outVars, authVars, flowVars, linkVars, libVars>>

\* ------------------------------------------------ webhook_dispatch worker
\* the broker's decision after a failed attempt, attemptsMade counting that
\* attempt: retry while attemptsMade < opts.attempts
WillRetry(attemptsMade, max) == attemptsMade < max

\* the row findUnique returns for a delivery that is no longer in the table
RowMissing(i) == deliveries[i].status = "missing"
\* the job is in its processor, the POST issued and no response yet; overdue
\* when that has lasted longer than the request timeout of the specification
Awaiting(i) == jobs[i].state \in {"active", "overdue"}

\* a processor that issues the POST whatever it has read
DeliverStartAlways(i) ==
  /\ jobs[i].state \in {"waiting", "delayed"}
  /\ jobs' = [jobs EXCEPT ![i].state = "active"]
  /\ posts' = [posts EXCEPT ![i] = @ + 1]
  /\ UNCHANGED <<endpointEnabled, events, deliveries, upsert>>
  /\ UNCHANGED <<sessionVars, outVars, authVars, flowVars, linkVars, libVars>>

\* the processor up to the fetch: a missing delivery row or a disabled endpoint
\* makes it return, so the job completes without a POST ("skipped"); otherwise
\* the POST is issued
DeliverStart(i) ==
  /\ jobs[i].state \in {"waiting", "delayed"}
  /\ IF RowMissing(i) \/ ~endpointEnabled[deliveries[i].endpoint]
     THEN /\ jobs' = [jobs EXCEPT ![i].state = "skipped"]
          /\ UNCHANGED posts
     ELSE /\ jobs' = [jobs EXCEPT ![i].state = "active"]
          /\ posts' = [posts EXCEPT ![i] = @ + 1]
  /\ UNCHANGED <<endpointEnabled, events, deliveries, upsert>>
  /\ UNCHANGED <<sessionVars, outVars, authVars, flowVars, linkVars, libVars>>

\* WebhookSuccessUpdate that leaves the retry fields of the last failure
WebhookSuccessUpdateKeepsError(row) ==
  [row EXCEPT !.status = "SUCCESS", !.attempts = @ + 1]

\* prisma.webhookDelivery.update after a 2xx response
WebhookSuccessUpdate(row) ==
  [row EXCEPT !.status = "SUCCESS", !.attempts = @ + 1,
              !.lastError = "null", !.nextRetryAt = "null"]

DeliverOk(i) ==
  /\ Awaiting(i)
  /\ deliveries' = [deliveries EXCEPT ![i] = WebhookSuccessUpdate(@)]
  /\ jobs' = [jobs EXCEPT ![i].state = "completed"]
  /\ UNCHANGED <<endpointEnabled, events, posts, upsert>>
  /\ UNCHANGED <<sessionVars, outVars, authVars, flowVars, linkVars, libVars>>

\* WebhookFailedHook without the DLQ transition
WebhookFailedHookNoDlq(row, attemptsMade, max) ==
  [row EXCEPT !.status = "FAILED",
              !.attempts = attemptsMade + 1,
              !.lastError = "Webhook responded 503",
              !.nextRetryAt = "set"]

\* worker.on('failed'): job.attemptsMade already counts the failed attempt
WebhookFailedHook(row, attemptsMade, max) ==
  LET attempts == attemptsMade + 1 IN
    [row EXCEPT !.status = IF attempts < max THEN "FAILED" ELSE "DLQ",
                !.attempts = attempts,
                !.lastError = "Webhook responded 503",
                !.nextRetryAt = IF attempts < max THEN "set" ELSE "null"]

\* a non-2xx response (or a fetch error): the processor throws, the broker
\* counts the attempt and delays or fails the job, the failed hook runs
DeliverFail(i) ==
  /\ Awaiting(i)
  /\ LET made == jobs[i].attemptsMade + 1 IN
       /\ jobs' = [jobs EXCEPT ![i] =
                     [state |-> IF WillRetry(made, WebhookAttempts) THEN "delayed" ELSE "failed",
                      attemptsMade |-> made]]
       /\ deliveries' = [deliveries EXCEPT ![i] = WebhookFailedHook(@, made, WebhookAttempts)]
  /\ UNCHANGED <<endpointEnabled, events, posts, upsert>>
  /\ UNCHANGED <<sessionVars, outVars, authVars, flowVars, linkVars, libVars>>

\* the row of a delivery whose job is queued is deleted from the table (with
\* its endpoint, or by maintenance)
DeliveryRowDeleted(i) ==
  /\ jobs[i].state \in {"waiting", "delayed"}
  /\ ~RowMissing(i)
  /\ deliveries' = [deliveries EXCEPT ![i].status = "missing"]
  /\ UNCHANGED <<endpointEnabled, events, jobs, posts, upsert>>
  /\ UNCHANGED <<sessionVars, outVars, authVars, flowVars, linkVars, libVars>>

\* the endpoint has not answered within the request timeout of the
\* specification: the fetch has no timeout or abort signal, so the processor
\* goes on awaiting it
DeliverStillWaiting(i) ==
  /\ jobs[i].state = "active"
  /\ jobs' = [jobs EXCEPT ![i].state = "overdue"]
  /\ UNCHANGED <<endpointEnabled, events, deliveries, posts, upsert>>
  /\ UNCHANGED <<sessionVars, outVars, authVars, flowVars, linkVars, libVars>>

InboundNext ==
  \/ \E e \in Endpoints : PatchEndpoint(e)
  \/ \E n \in 1..MaxBatch : UpsertStart(n, MaxInboundEvents, MaxInboundEvents * Len(EndpointOrder))
  \/ UpsertCreateEvent
  \/ UpsertCreateDelivery
  \/ UpsertEnqueue
  \/ UpsertMessageDone

WebhookNext ==
  \/ \E e \in Endpoints : PatchEndpoint(e)
  \/ \E n \in 1..MaxBatch : UpsertStart(n, MaxHookEvents, MaxHookDeliveries)
  \/ UpsertCreateEvent
  \/ UpsertCreateDelivery
  \/ UpsertEnqueue
  \/ UpsertMessageDone
  \/ \E i \in 1..Len(jobs) : DeliverStart(i)
  \/ \E i \in 1..Len(jobs) : DeliverOk(i)
  \/ \E i \in 1..Len(jobs) : DeliverFail(i)

\* Event and WebhookDelivery rows created over one run of the dispatch worker
\* with deleted rows and silent endpoints
MaxDispatchEvents == 1
MaxDispatchDeliveries == 1
DispatchNext ==
  \/ \E e \in Endpoints : PatchEndpoint(e)
  \/ \E n \in 1..MaxBatch : UpsertStart(n, MaxDispatchEvents, MaxDispatchDeliveries)
  \/ UpsertCreateEvent
  \/ UpsertCreateDelivery
  \/ UpsertEnqueue
  \/ UpsertMessageDone
  \/ \E i \in 1..Len(jobs) : DeliverStart(i)
  \/ \E i \in 1..Len(jobs) : DeliverOk(i)
  \/ \E i \in 1..Len(jobs) : DeliverFail(i)
  \/ \E i \in 1..Len(jobs) : DeliveryRowDeleted(i)
  \/ \E i \in 1..Len(jobs) : DeliverStillWaiting(i)

\* ---------------------------------------------- outbound_messages worker
\* OutboundMessage rows created over one run
MaxOutRows == 1
\* outboundQueue.add('send', ..., { attempts: 3, ... })
OutboundAttempts == 3
RowTypes == {"text", "image"}
PrereqErrors ==
  {"device_not_found", "device_not_online:OFFLINE", "device_not_online:QR",
   "device_not_online:ERROR", "device_not_connected", "socket_not_authenticated",
   "unsupported_type:image"}

OutInit ==
  /\ outRows = <<>>
  /\ outJobs = <<>>

\* the job as queued; commands counts the attempts that reached the transport
\* (sendPresenceUpdate, sendMessage), accepted the calls of sendMessage that
\* returned, read is what the attempt being processed gets from
\* prisma.device.findUnique and from sock.user, locals that end with the attempt
NoRead == [device |-> "row", user |-> TRUE]
NewOutJob ==
  [state |-> "waiting", attemptsMade |-> 0, commands |-> 0, accepted |-> 0, read |-> NoRead]

\* POST /devices/:id/messages/send: refused unless the Device is ONLINE; the
\* row is created QUEUED with type text, the job added
ApiSend(d) ==
  /\ Len(outRows) < MaxOutRows
  /\ device[d].status = "ONLINE"
  /\ outRows' = Append(outRows, [dev |-> d, type |-> "text", status |-> "QUEUED", error |-> "null"])
  /\ outJobs' = Append(outJobs, NewOutJob)
  /\ UNCHANGED <<sessionVars, hookVars, authVars, flowVars, linkVars, libVars>>

\* the inbound acknowledgement enqueues a text row whatever the Device status;
\* the type column is a string, so the processor may also load a row of another
\* type
ProducerEnqueue(d, ty) ==
  /\ Len(outRows) < MaxOutRows
  /\ outRows' = Append(outRows, [dev |-> d, type |-> ty, status |-> "QUEUED", error |-> "null"])
  /\ outJobs' = Append(outJobs, NewOutJob)
  /\ UNCHANGED <<sessionVars, hookVars, authVars, flowVars, linkVars, libVars>>

\* the processor loads the row and marks it PROCESSING
SendStart(i, deviceRead, hasUser) ==
  /\ outJobs[i].state \in {"waiting", "delayed"}
  /\ outRows' = [outRows EXCEPT ![i].status = "PROCESSING"]
  /\ outJobs' = [outJobs EXCEPT ![i].state = "active",
                                ![i].read = [device |-> deviceRead, user |-> hasUser]]
  /\ UNCHANGED <<sessionVars, hookVars, authVars, flowVars, linkVars, libVars>>

\* the checks without the one of sock.user
PrereqErrorNoUserCheck(i) ==
  LET d == outRows[i].dev IN
  IF outJobs[i].read.device = "null" THEN "device_not_found"
  ELSE IF device[d].status # "ONLINE"
       THEN (IF device[d].status = "OFFLINE" THEN "device_not_online:OFFLINE"
             ELSE IF device[d].status = "QR" THEN "device_not_online:QR"
             ELSE "device_not_online:ERROR")
  ELSE IF ~sessions[d].present THEN "device_not_connected"
  ELSE IF outRows[i].type # "text" THEN "unsupported_type:image"
  ELSE "ok"

\* the prerequisite checks of the processor, in the order of the code
PrereqError(i) ==
  LET d == outRows[i].dev IN
  IF outJobs[i].read.device = "null" THEN "device_not_found"
  ELSE IF device[d].status # "ONLINE"
       THEN (IF device[d].status = "OFFLINE" THEN "device_not_online:OFFLINE"
             ELSE IF device[d].status = "QR" THEN "device_not_online:QR"
             ELSE "device_not_online:ERROR")
  ELSE IF ~sessions[d].present THEN "device_not_connected"
  ELSE IF ~outJobs[i].read.user THEN "socket_not_authenticated"
  ELSE IF outRows[i].type # "text" THEN "unsupported_type:image"
  ELSE "ok"

\* a prerequisite is missing: the row is FAILED and the processor returns
SendPrereqFail(i, err) ==
  /\ outJobs[i].state = "active"
  /\ err = PrereqError(i)
  /\ outRows' = [outRows EXCEPT ![i].status = "FAILED", ![i].error = err]
  /\ outJobs' = [outJobs EXCEPT ![i].state = "completed", ![i].read = NoRead]
  /\ UNCHANGED <<sessionVars, hookVars, authVars, flowVars, linkVars, libVars>>

\* the checks passed and sendMessage returned: the row is SENT
SendOk(i) ==
  /\ outJobs[i].state = "active"
  /\ PrereqError(i) = "ok"
  /\ outRows' = [outRows EXCEPT ![i].status = "SENT", ![i].error = "null"]
  /\ outJobs' = [outJobs EXCEPT ![i].state = "completed", ![i].commands = @ + 1,
                                ![i].accepted = @ + 1, ![i].read = NoRead]
  /\ UNCHANGED <<sessionVars, hookVars, authVars, flowVars, linkVars, libVars>>

\* worker.on('failed') of the outbound worker
OutboundFailedHook(row) == [row EXCEPT !.status = "FAILED", !.error = "send_error"]

\* the checks passed and the transport send raised: the processor rethrows, the
\* broker counts the attempt and delays or fails the job, the failed hook runs
SendThrow(i) ==
  /\ outJobs[i].state = "active"
  /\ PrereqError(i) = "ok"
  /\ LET made == outJobs[i].attemptsMade + 1 IN
       outJobs' = [outJobs EXCEPT
                     ![i].state = IF WillRetry(made, OutboundAttempts) THEN "delayed" ELSE "failed",
                     ![i].attemptsMade = made,
                     ![i].commands = @ + 1,
                     ![i].read = NoRead]
  /\ outRows' = [outRows EXCEPT ![i] = OutboundFailedHook(@)]
  /\ UNCHANGED <<sessionVars, hookVars, authVars, flowVars, linkVars, libVars>>

\* the checks passed and sendMessage returned, then the update of the row to
\* SENT raised: the catch rethrows, the broker counts the attempt and delays or
\* fails the job, the failed hook runs
SendOkUpdateThrows(i) ==
  /\ outJobs[i].state = "active"
  /\ PrereqError(i) = "ok"
  /\ LET made == outJobs[i].attemptsMade + 1 IN
       outJobs' = [outJobs EXCEPT
                     ![i].state = IF WillRetry(made, OutboundAttempts) THEN "delayed" ELSE "failed",
                     ![i].attemptsMade = made,
                     ![i].commands = @ + 1,
                     ![i].accepted = @ + 1,
                     ![i].read = NoRead]
  /\ outRows' = [outRows EXCEPT ![i] = OutboundFailedHook(@)]
  /\ UNCHANGED <<sessionVars, hookVars, authVars, flowVars, linkVars, libVars>>

\* the device of the rows is connected and disconnected by command meanwhile
OutboundNext ==
  \/ \E d \in Devices : ApiSend(d)
  \/ \E d \in Devices, ty \in RowTypes : ProducerEnqueue(d, ty)
  \/ \E i \in 1..Len(outJobs), dr \in {"row", "null"}, hu \in BOOLEAN : SendStart(i, dr, hu)
  \/ \E i \in 1..Len(outJobs), err \in PrereqErrors : SendPrereqFail(i, err)
  \/ \E i \in 1..Len(outJobs) : SendOk(i)
  \/ \E i \in 1..Len(outJobs) : SendThrow(i)
  \/ \E d \in Devices : CmdConnect(d)
  \/ CmdReturn
  \/ \E d \in Devices : CmdDisconnect(d)
  \/ \E o \in Origins, d \in Devices : ConnectFinishOk(o, d)
  \/ \E s \in 1..Len(socks) : SockConnecting(s)
  \/ \E s \in 1..Len(socks) : SockOpen(s)

\* ----------------------------------------- auth state and reconcile signal
\* the key store's set() stores entries of the sender in the socket's keysData
\* and calls triggerSave, which arms the 2 s save timer
KeysUpdate(s) ==
  /\ socks[s].phase = "open"
  /\ ~auth[s].mem
  /\ auth' = [auth EXCEPT ![s].mem = TRUE, ![s].saveTimer = TRUE]
  /\ UNCHANGED <<waStore, sessionVars, hookVars, outVars, flowVars, linkVars, libVars>>

\* the save timer of triggerSave fires: keysData is written to WaSession.  The
\* timer belongs to the closure of loadAuthState; nothing clears it when the
\* socket ends.
SaveFire(s) ==
  /\ auth[s].saveTimer
  /\ waStore' = [waStore EXCEPT ![socks[s].dev] = auth[s].mem]
  /\ auth' = [auth EXCEPT ![s].saveTimer = FALSE]
  /\ UNCHANGED <<sessionVars, hookVars, outVars, flowVars, linkVars, libVars>>

\* messages.upsert with a decryption-failure stub: handleMessagesUpsert returns
\* clearSenderAndReconnect, the handler calls save() (triggerSave) and goes on
\* to clearSessionsForJids
ReconStart(s) ==
  /\ socks[s].phase = "open"
  /\ auth[s].recon = "none"
  /\ auth' = [auth EXCEPT ![s].recon = "clear", ![s].saveTimer = TRUE]
  /\ UNCHANGED <<waStore, sessionVars, hookVars, outVars, flowVars, linkVars, libVars>>

\* clearSessionsForJids: the stored state is read, the sender's session and
\* sender-key entries are deleted from that copy, the copy is written back
ReconClear(s) ==
  /\ auth[s].recon = "clear"
  /\ waStore' = [waStore EXCEPT ![socks[s].dev] = FALSE]
  /\ auth' = [i \in 1..Len(auth) |->
               IF socks[i].dev # socks[s].dev THEN auth[i]
               ELSE [auth[i] EXCEPT !.recon = IF i = s THEN "teardown" ELSE @,
                                    !.evicted = @ \/ (auth[i].mem /\ waStore[socks[s].dev])]]
  /\ UNCHANGED <<sessionVars, hookVars, outVars, flowVars, linkVars, libVars>>

\* the teardown after the clear: if the map has an entry not closing, it is
\* marked closing and deleted, this socket is ended, connect is set at +5 s
ReconTeardown(s) ==
  LET d == socks[s].dev IN
  /\ auth[s].recon = "teardown"
  /\ auth' = [auth EXCEPT ![s].recon = "none"]
  /\ IF sessions[d].present /\ ~sessions[d].closing
     THEN /\ sessions' = [sessions EXCEPT ![d] = NoEntry]
          /\ socks' = EndSocket(socks, s, "no_matching_sessions_reconnect")
          /\ timers' = [timers EXCEPT ![d].plain = @ + 1]
          /\ device' = IF Live(s)
                       THEN [device EXCEPT ![d] =
                               [status |-> "OFFLINE", qr |-> "null",
                                lastError |-> "no_matching_sessions_reconnect"]]
                       ELSE device
     ELSE UNCHANGED <<sessions, socks, timers, device>>
  /\ UNCHANGED <<waStore, calls, cmd, sweep, hookVars, outVars, flowVars, linkVars, libVars>>

AuthInit ==
  /\ waStore = [d \in Devices |-> FALSE]
  /\ auth = <<>>

\* ------------------------------------------------ event handlers of a device
\* handler invocations over one run
MaxRuns == 2
UpsertTypes == {"notify", "append"}
\* a message by the branch of the filter it takes
MessageKinds == {"inbound", "fromMe", "noRemoteJid", "statusBroadcast"}
Batches == UNION {[1..n -> MessageKinds] : n \in 1..MaxBatch}

FlowInit ==
  /\ runs = <<>>
  /\ eventLog = <<>>

\* the socket emits messages.upsert: the emitter calls the async handler, which
\* calls handleMessagesUpsert with m.messages and is suspended at its first
\* await; the emitter does not wait for the promise
EmitUpsert(type, msgs) ==
  /\ Len(runs) < MaxRuns
  /\ runs' = Append(runs, [kind |-> "messages.upsert", type |-> type, msgs |-> msgs,
                           next |-> 1, pc |-> "await"])
  /\ UNCHANGED eventLog
  /\ UNCHANGED <<sessionVars, hookVars, outVars, authVars, linkVars, libVars>>

\* the socket emits creds.update: the handler is suspended in save.immediate()
EmitCreds ==
  /\ Len(runs) < MaxRuns
  /\ runs' = Append(runs, [kind |-> "creds.update", type |-> "none", msgs |-> <<>>,
                           next |-> 1, pc |-> "await"])
  /\ UNCHANGED eventLog
  /\ UNCHANGED <<sessionVars, hookVars, outVars, authVars, linkVars, libVars>>

\* the filter at the head of the loop of handleMessagesUpsert
PassesFilter(kind) == kind \notin {"noRemoteJid", "fromMe", "statusBroadcast"}
\* the first message from position k on that the loop does not skip
NextPassing(msgs, k) ==
  LET P == {j \in k..Len(msgs) : PassesFilter(msgs[j])} IN
  IF P = {} THEN Len(msgs) + 1 ELSE CHOOSE j \in P : \A i \in P : j <= i

\* handleMessagesUpsert resumes and creates the Event row of its next message
RunCreateEvent(r) ==
  /\ runs[r].kind = "messages.upsert"
  /\ runs[r].pc = "await"
  /\ LET j == NextPassing(runs[r].msgs, runs[r].next) IN
       /\ j <= Len(runs[r].msgs)
       /\ eventLog' = Append(eventLog, <<r, j>>)
       /\ runs' = [runs EXCEPT ![r].next = j + 1]
  /\ UNCHANGED <<sessionVars, hookVars, outVars, authVars, linkVars, libVars>>

\* the handler runs to its end: no message is left, or the save has resolved
RunDone(r) ==
  /\ runs[r].pc = "await"
  /\ NextPassing(runs[r].msgs, runs[r].next) > Len(runs[r].msgs)
  /\ runs' = [runs EXCEPT ![r].pc = "done"]
  /\ UNCHANGED eventLog
  /\ UNCHANGED <<sessionVars, hookVars, outVars, authVars, linkVars, libVars>>

FlowNext ==
  \/ \E type \in UpsertTypes, msgs \in Batches : EmitUpsert(type, msgs)
  \/ EmitCreds
  \/ \E r \in 1..Len(runs) : RunCreateEvent(r)
  \/ \E r \in 1..Len(runs) : RunDone(r)

\* ------------------------------------------------------- public QR links
\* expiresAt.setHours(expiresAt.getHours() + 24)
LinkTtlHours == 24
\* the clock advances in steps of TickHours up to MaxClock
TickHours == 12
MaxClock == 36
\* PublicQrLink rows created over one run
MaxLinks == 2

\* the device of the sweep list was linked before, so its lastSeenAt is set
LinkInit ==
  /\ links = <<>>
  /\ lastSeenAt = [d \in Devices |-> 0]
  /\ now = 0

Tick ==
  /\ now + TickHours <= MaxClock
  /\ now' = now + TickHours
  /\ UNCHANGED <<links, lastSeenAt>>
  /\ UNCHANGED <<sessionVars, hookVars, outVars, authVars, flowVars, libVars>>

\* POST /devices/:id/public-link
CreateLink(d) ==
  /\ Len(links) < MaxLinks
  /\ links' = Append(links, [dev |-> d, createdAt |-> now, expiresAt |-> now + LinkTtlHours])
  /\ UNCHANGED <<lastSeenAt, now>>
  /\ UNCHANGED <<sessionVars, hookVars, outVars, authVars, flowVars, libVars>>

\* the status GET /public/qr/:token answers for link i
PublicQrStatus(i) ==
  LET d == links[i].dev IN
  IF now > links[i].expiresAt THEN "EXPIRED"
  ELSE IF device[d].status = "ONLINE" THEN "ONLINE"
  ELSE IF device[d].status = "QR" /\ device[d].qr # "null" THEN "QR"
  ELSE "EXPIRED"

\* GET /public/qr/:token: a link still valid of a device that is ONLINE is
\* expired by the request
PublicQrRead(i) ==
  /\ links' = IF PublicQrStatus(i) = "ONLINE" THEN [links EXCEPT ![i].expiresAt = now] ELSE links
  /\ UNCHANGED <<lastSeenAt, now>>
  /\ UNCHANGED <<sessionVars, hookVars, outVars, authVars, flowVars, libVars>>

QrLinkNext ==
  \/ \E d \in Devices : CmdConnect(d)
  \/ CmdReturn
  \/ \E o \in Origins, d \in Devices : ConnectFinishOk(o, d)
  \/ \E s \in 1..Len(socks) : SockConnecting(s)
  \/ \E s \in 1..Len(socks) : SockQr(s)
  \/ \E s \in 1..Len(socks) : SockOpen(s)
  \/ \E d \in Devices : CmdDisconnect(d)
  \/ Tick
  \/ \E d \in Devices : CreateLink(d)
  \/ \E i \in 1..Len(links) : PublicQrRead(i)

\* ------------------------------------------------------------ normalizer
\* a string is the sequence of its tokens (words and single spaces); Null is
\* null or undefined
Null == [isNull |-> TRUE, v |-> <<>>]
Str(s) == [isNull |-> FALSE, v |-> s]
\* a ?? b
Coalesce(a, b) == IF a.isNull THEN b ELSE a
\* !x for a string or null
Falsy(x) == x.isNull \/ x.v = <<>>

\* a JID user[:device]@server; NoJid is null, undefined or ''
NoJid == [user |-> "", device |-> 0, server |-> ""]
UserJid(u, dv, sv) == [user |-> u, device |-> dv, server |-> sv]
GroupJid == [user |-> "g", device |-> 0, server |-> "g.us"]
StatusJid == [user |-> "status", device |-> 0, server |-> "broadcast"]
ListJid == [user |-> "list", device |-> 0, server |-> "broadcast"]
\* device suffixes of the user JIDs of a run
MaxDeviceSuffix == 1
RemoteJids ==
  {UserJid("a", dv, sv) : dv \in 0..MaxDeviceSuffix, sv \in {"s.whatsapp.net", "c.us", "lid"}}
    \cup {GroupJid, StatusJid, ListJid, NoJid}
Participants == {NoJid, UserJid("p", 0, "lid")}
SenderPns == {NoJid} \cup {UserJid("b", dv, "s.whatsapp.net") : dv \in 0..MaxDeviceSuffix}
Keys ==
  [remoteJid : RemoteJids, fromMe : BOOLEAN, participant : Participants, senderPn : SenderPns]

isJidGroup(j) == j.server = "g.us"
isJidBroadcast(j) == j.server = "broadcast"
isJidStatusBroadcast(j) == j = StatusJid
\* the transport's getChatId
getChatId(key) ==
  IF isJidBroadcast(key.remoteJid) /\ ~isJidStatusBroadcast(key.remoteJid) /\ ~key.fromMe
  THEN key.participant
  ELSE key.remoteJid
\* a normalizer that keeps the JID as it came
jidNormalizedUserKeep(j) == j
\* the transport's jidNormalizedUser: '' when the JID does not decode, else
\* user@server without device, c.us written s.whatsapp.net
jidNormalizedUser(j) ==
  IF j = NoJid THEN NoJid
  ELSE [user |-> j.user, device |-> 0,
        server |-> IF j.server = "c.us" THEN "s.whatsapp.net" ELSE j.server]
\* a || b on JIDs
OrJid(a, b) == IF a = NoJid THEN b ELSE a

Texts == {Null, Str(<<>>), Str(<<"hi">>)}
NoMedia == [present |-> FALSE, caption |-> Null]
Media(c) == [present |-> TRUE, caption |-> c]
Contents ==
  [conversation : Texts, extendedText : Texts,
   image : {NoMedia} \cup {Media(c) : c \in Texts},
   video : {NoMedia, Media(Null), Media(Str(<<"hi">>))},
   audio : BOOLEAN, document : BOOLEAN]
NoContent ==
  [conversation |-> Null, extendedText |-> Null, image |-> NoMedia, video |-> NoMedia,
   audio |-> FALSE, document |-> FALSE]
\* messageStubParameters of the envelopes
BadMacParams == <<<<"Bad", " ", "MAC">>>>
StubParams ==
  {<<>>,
   BadMacParams,
   <<<<"bad">>, <<"mac">>>>,
   <<<<"bad">>, <<>>, <<"mac">>>>,
   <<<<"hi">>, <<"No matching sessions found for message">>>>,
   <<<<"Failed to decrypt message">>>>,
   <<<<"hi">>>>,
   <<<<" ">>>>}
DefaultKey ==
  [remoteJid |-> UserJid("a", 0, "s.whatsapp.net"), fromMe |-> FALSE,
   participant |-> NoJid, senderPn |-> NoJid]
Envelope(k, c, st, sp) == [key |-> k, message |-> c, stubType |-> st, stubParams |-> sp]
\* the envelopes of a run: every key, every content with and without a stub
\* type, every list of stub parameters with and without content
Envelopes ==
  {Envelope(k, NoContent, FALSE, <<>>) : k \in Keys}
    \cup {Envelope(DefaultKey, c, st, <<>>) : c \in Contents, st \in BOOLEAN}
    \cup {Envelope(DefaultKey, c, st, sp) :
            c \in {NoContent, [NoContent EXCEPT !.conversation = Str(<<>>)],
                   [NoContent EXCEPT !.conversation = Str(<<"hi">>)],
                   [NoContent EXCEPT !.audio = TRUE]},
            st \in BOOLEAN, sp \in StubParams}

getText(msg) ==
  Coalesce(msg.conversation,
    Coalesce(msg.extendedText,
      Coalesce(IF msg.image.present THEN msg.image.caption ELSE Null,
               IF msg.video.present THEN msg.video.caption ELSE Null)))
getMediaMeta(msg) ==
  IF msg.image.present THEN "image"
  ELSE IF msg.video.present THEN "video"
  ELSE IF msg.audio THEN "audio"
  ELSE IF msg.document THEN "document"
  ELSE "null"

RECURSIVE JoinSpace(_)
\* parameters.join(' ')
JoinSpace(ps) ==
  IF ps = <<>> THEN <<>>
  ELSE IF Len(ps) = 1 THEN ps[1]
  ELSE ps[1] \o <<" ">> \o JoinSpace(Tail(ps))
RECURSIVE TrimLeft(_)
TrimLeft(s) == IF s # <<>> /\ s[1] = " " THEN TrimLeft(Tail(s)) ELSE s
RECURSIVE TrimRight(_)
TrimRight(s) ==
  IF s # <<>> /\ s[Len(s)] = " " THEN TrimRight(SubSeq(s, 1, Len(s) - 1)) ELSE s
Trim(s) == TrimRight(TrimLeft(s))

normalizeInboundMessage(m) ==
  LET key == m.key
      chatId == getChatId(key)
      isOneToOne == chatId # NoJid /\ ~isJidGroup(chatId) /\ ~isJidBroadcast(chatId)
      replyToJid ==
        OrJid(IF isOneToOne /\ key.senderPn # NoJid THEN key.senderPn ELSE chatId,
              key.remoteJid)
      from == OrJid(OrJid(jidNormalizedUser(replyToJid), replyToJid), key.remoteJid)
      text0 == getText(m.message)
      media == getMediaMeta(m.message)
      isStub == text0.isNull /\ media = "null" /\ (m.stubType \/ Len(m.stubParams) > 0)
      joined == Trim(JoinSpace(m.stubParams))
      text == IF isStub /\ Len(m.stubParams) > 0
              THEN (IF joined = <<>> THEN Null ELSE Str(joined))
              ELSE text0
      type == IF ~Falsy(text) /\ ~isStub THEN "text"
              ELSE IF media # "null" THEN "media"
              ELSE IF isStub THEN "stub"
              ELSE "unknown"
  IN [from |-> from, replyToJid |-> replyToJid, remoteJid |-> key.remoteJid,
      senderPn |-> key.senderPn,
      content |-> [type |-> type, text |-> IF Falsy(text) THEN Null ELSE text,
                   media |-> media]]

\* ------------------------------------- inbound handler: stubs and tenants
\* Event and OutboundMessage rows created over one run of the handler model
MaxPipeEvents == 2
MaxPipeOutbound == 1
\* calls of handleMessagesUpsert over one run of the handler model
MaxHandlerCalls == 1
\* the tenant of each Device row and of each WebhookEndpoint row; the worker
\* holds the sessions of Devices, d2 is a device of another tenant
DeviceTenant == [d1 |-> "t1", d2 |-> "t2"]
EndpointTenant == [e1 |-> "t1", x1 |-> "t2"]
\* the order in which findMany lists the endpoints
EndpointRows == <<"e1", "x1">>
\* the envelopes of the batches
LidKey ==
  [DefaultKey EXCEPT !.remoteJid = UserJid("c", 0, "lid"),
                     !.senderPn = UserJid("b", MaxDeviceSuffix, "s.whatsapp.net")]
HelloContent == [NoContent EXCEPT !.conversation = Str(<<"hi">>)]
HandlerEnvelopes ==
  {Envelope(DefaultKey, NoContent, TRUE, sp) : sp \in StubParams}
    \cup {Envelope(LidKey, NoContent, FALSE, BadMacParams),
          Envelope([DefaultKey EXCEPT !.remoteJid = StatusJid], NoContent, TRUE, BadMacParams),
          Envelope([DefaultKey EXCEPT !.fromMe = TRUE], HelloContent, FALSE, <<>>),
          Envelope(DefaultKey, HelloContent, FALSE, <<>>),
          Envelope(LidKey, HelloContent, TRUE, BadMacParams)}

\* the lower-case form of the words of the stub texts
LowerWord(w) ==
  CASE w = "Bad" -> "bad"
    [] w = "MAC" -> "mac"
    [] w = "No matching sessions found for message" -> "no matching sessions found for message"
    [] w = "Failed to decrypt message" -> "failed to decrypt message"
    [] OTHER -> w
\* pattern.test(s) without the i flag: the pattern occurs in s
RegexTest(pattern, s) ==
  \E i \in 1..(Len(s) - Len(pattern) + 1) : SubSeq(s, i, i + Len(pattern) - 1) = pattern
\* /pattern/i.test(s)
RegexTestI(pattern, s) == RegexTest(pattern, [i \in 1..Len(s) |-> LowerWord(s[i])])
\* the three tests without the i flag
isDecryptionFailureCaseSensitive(stubText) ==
  \/ RegexTest(<<"no matching sessions found for message">>, stubText)
  \/ RegexTest(<<"bad", " ", "mac">>, stubText)
  \/ RegexTest(<<"failed to decrypt message">>, stubText)
isDecryptionFailure(stubText) ==
  \/ RegexTestI(<<"no matching sessions found for message">>, stubText)
  \/ RegexTestI(<<"bad", " ", "mac">>, stubText)
  \/ RegexTestI(<<"failed to decrypt message">>, stubText)

\* findMany over all endpoints that are enabled, whatever their tenant
findManyEndpointsAnyTenant(tenantId, enabled) ==
  SelectSeq(EndpointRows, LAMBDA e : e \in enabled)
\* prisma.webhookEndpoint.findMany({ where: { tenantId, enabled: true } })
findManyEndpoints(tenantId, enabled) ==
  SelectSeq(EndpointRows, LAMBDA e : EndpointTenant[e] = tenantId /\ e \in enabled)

NoSignal == [set |-> FALSE, remoteJid |-> NoJid, senderPn |-> NoJid]
EmptyDb ==
  [enabled |-> {"e1", "x1"}, events |-> <<>>, deliveries |-> <<>>, jobs |-> <<>>,
   outbound |-> <<>>, lastSeenAt |-> [d \in DOMAIN DeviceTenant |-> <<0, 0>>]]
NoMessage == [handled |-> FALSE]
IdlePipe ==
  [pc |-> "idle", db |-> EmptyDb, dev |-> "d1", left |-> 0, snapshot |-> <<>>,
   calls |-> 0, ack |-> FALSE, result |-> NoSignal, returned |-> NoSignal, last |-> NoMessage]
PipeStep(p) ==
  /\ pipe' = p
  /\ UNCHANGED <<box, store>>
  /\ UNCHANGED <<sessionVars, hookVars, outVars, authVars, flowVars, linkVars>>

\* PATCH /webhooks/:id { enabled }
HandlerPatchEndpoint(e) ==
  /\ PipeStep([pipe EXCEPT !.db.enabled = IF e \in @ THEN @ \ {e} ELSE @ \cup {e},
                           !.last = NoMessage])

\* handleMessagesUpsert is called for a device with n messages: the Device row
\* and the enabled endpoints of its tenant are read once, before the loop; ack
\* tells whether WORKER_INBOUND_ACK_MESSAGE is set
HandleStart(d, n, ack) ==
  /\ pipe.pc = "idle"
  /\ pipe.calls < MaxHandlerCalls
  /\ PipeStep([pipe EXCEPT !.pc = "loop", !.calls = @ + 1, !.dev = d,
                           !.returned = NoSignal, !.left = n, !.ack = ack,
                           !.snapshot = findManyEndpoints(DeviceTenant[d], pipe.db.enabled),
                           !.result = NoSignal, !.last = NoMessage])

\* the rows of one Event and its fan-out: event.create, then for every endpoint
\* of the snapshot webhookDelivery.create and webhookQueue.add
WithEvent(db, d, snapshot, decryptionFailed) ==
  LET ev == Len(db.events) + 1 IN
    [db EXCEPT
       !.events = Append(@, [tenantId |-> DeviceTenant[d], deviceId |-> d,
                             type |-> "message.inbound",
                             decryptionFailed |-> decryptionFailed]),
       !.deliveries = @ \o [i \in 1..Len(snapshot) |->
                              [endpointId |-> snapshot[i], eventId |-> ev]],
       !.jobs = @ \o [i \in 1..Len(snapshot) |->
                        [name |-> "deliver", deliveryId |-> Len(db.deliveries) + i,
                         attempts |-> WebhookAttempts]]]
\* outboundMessage.create for the acknowledgement text
WithAck(db, d) ==
  [db EXCEPT !.outbound = Append(@, [tenantId |-> DeviceTenant[d], deviceId |-> d,
                                     type |-> "text"])]
\* device.update({ lastSeenAt: new Date() }) at time t
WithLastSeen(db, d, t) == [db EXCEPT !.lastSeenAt[d] = t]

\* one turn of the loop over the batch
HandleMessage(m) ==
  /\ pipe.pc = "loop"
  /\ pipe.left > 0
  /\ LET key == m.key
         d == pipe.dev
         skipped == key.remoteJid = NoJid \/ key.fromMe \/ key.remoteJid = StatusJid
         normalized == normalizeInboundMessage(m)
         stubText == IF normalized.content.text.isNull THEN <<>>
                     ELSE normalized.content.text.v
         failure == isDecryptionFailure(stubText) /\ key.remoteJid # NoJid
         ackNow == pipe.ack /\ normalized.from # NoJid
                     /\ Len(pipe.db.outbound) < MaxPipeOutbound
         seen == [env |-> m, norm |-> normalized, handled |-> ~skipped]
         \* the time of this turn: the call and the position in its batch
         t == <<pipe.calls, pipe.left>>
     IN IF skipped
        THEN PipeStep([pipe EXCEPT !.left = @ - 1, !.last = seen])
        ELSE IF normalized.content.type = "stub"
        THEN IF failure
             THEN /\ Len(pipe.db.events) < MaxPipeEvents
                  /\ PipeStep([pipe EXCEPT
                       !.left = @ - 1, !.last = seen,
                       !.result = [set |-> TRUE, remoteJid |-> key.remoteJid,
                                   senderPn |-> key.senderPn],
                       !.db = WithLastSeen(
                                WithEvent(pipe.db, d, pipe.snapshot, TRUE), d, t)])
             ELSE PipeStep([pipe EXCEPT !.left = @ - 1, !.last = seen,
                                        !.db = WithLastSeen(pipe.db, d, t)])
        ELSE /\ Len(pipe.db.events) < MaxPipeEvents
             /\ PipeStep([pipe EXCEPT
                  !.left = @ - 1, !.last = seen,
                  !.db = WithLastSeen(
                           LET withEvent == WithEvent(pipe.db, d, pipe.snapshot, FALSE)
                           IN IF ackNow THEN WithAck(withEvent, d) ELSE withEvent, d, t)])

\* return result
HandleReturn ==
  /\ pipe.pc = "loop"
  /\ pipe.left = 0
  /\ PipeStep([pipe EXCEPT !.pc = "idle", !.returned = pipe.result, !.last = NoMessage,
                           !.result = NoSignal, !.snapshot = <<>>, !.ack = FALSE])

\* POST /devices/:id/messages/send (and .../test) by a bot of a tenant or by a
\* superadmin, the device being ONLINE
ApiSendScoped(d, scopeTenant, isSuperadmin) ==
  /\ Len(pipe.db.outbound) < MaxPipeOutbound
  /\ isSuperadmin \/ DeviceTenant[d] = scopeTenant
  /\ PipeStep([pipe EXCEPT !.db = WithAck(pipe.db, d), !.last = NoMessage])

HandlerNext ==
  \/ \E e \in DOMAIN EndpointTenant : HandlerPatchEndpoint(e)
  \/ \E d \in Devices, n \in 1..MaxBatch, ack \in BOOLEAN : HandleStart(d, n, ack)
  \/ \E m \in HandlerEnvelopes : HandleMessage(m)
  \/ HandleReturn
  \/ \E d \in DOMAIN DeviceTenant, tn \in {"t1", "t2"}, su \in BOOLEAN : ApiSendScoped(d, tn, su)

\* ------------------------------------------------- normalizer as a step
\* an envelope arrives
PipeReceive(m) ==
  /\ pipe.pc = "idle"
  /\ pipe' = [pc |-> "received", env |-> m]
  /\ UNCHANGED <<box, store>>
  /\ UNCHANGED <<sessionVars, hookVars, outVars, authVars, flowVars, linkVars>>

\* normalizeInboundMessage({ message, deviceJid })
PipeNormalize ==
  /\ pipe.pc = "received"
  /\ pipe' = [pc |-> "normalized", env |-> pipe.env, norm |-> normalizeInboundMessage(pipe.env)]
  /\ UNCHANGED <<box, store>>
  /\ UNCHANGED <<sessionVars, hookVars, outVars, authVars, flowVars, linkVars>>

NormalizeNext ==
  \/ \E m \in Envelopes : PipeReceive(m)
  \/ PipeNormalize

\* ------------------------------------------------ string encryption at rest
\* characters of the plaintexts; "lone" is an unpaired surrogate, "repl" the
\* replacement character U+FFFD
PlainChars == {"a", "b", "lone"}
\* longest plaintext of a run
MaxPlainLen == 2
Plaintexts == UNION {[1..n -> PlainChars] : n \in 0..MaxPlainLen}
\* the configured keys and the random initialisation vectors of a run
CryptoKeys == {1, 2}
Ivs == {0, 1, 3}
\* Buffer.from(s, 'utf8') per character: an unpaired surrogate is written as
\* the bytes of U+FFFD
Utf8Encode(s) ==
  [i \in 1..Len(s) |-> CASE s[i] = "a" -> 1 [] s[i] = "b" -> 2 [] OTHER -> 3]
\* buf.toString('utf8') per byte
Utf8Decode(bs) ==
  [i \in 1..Len(bs) |-> CASE bs[i] = 1 -> "a" [] bs[i] = 2 -> "b" [] bs[i] = 3 -> "repl"
                          [] OTHER -> "nul"]
\* the base64 digit of a byte; the empty buffer is the empty string
B64Alphabet == <<"A", "B", "C", "D">>
\* bytes are 0..ByteMod-1, one digit each
ByteMod == Len(B64Alphabet)
ToBase64(bs) == [i \in 1..Len(bs) |-> B64Alphabet[bs[i] + 1]]
FromBase64(cs) ==
  [i \in 1..Len(cs) |-> (CHOOSE k \in 1..Len(B64Alphabet) : B64Alphabet[k] = cs[i]) - 1]
\* the counter-mode key stream and the authentication tag of the cipher
KeyStream(key, iv, i) == (key + 2 * iv + i) % ByteMod
RECURSIVE SumBytes(_)
SumBytes(bs) == IF bs = <<>> THEN 0 ELSE bs[1] + SumBytes(Tail(bs))
AuthTag(key, iv, ct) == (3 * key + iv + SumBytes(ct) + Len(ct)) % ByteMod
GcmEncrypt(key, iv, bs) == [i \in 1..Len(bs) |-> (bs[i] + KeyStream(key, iv, i)) % ByteMod]
GcmDecrypt(key, iv, ct) ==
  [i \in 1..Len(ct) |-> (ct[i] + ByteMod - KeyStream(key, iv, i)) % ByteMod]

\* encryptString(plaintext) under a key and the iv drawn by randomBytes
encryptString(plaintext, key, iv) ==
  LET ciphertext == GcmEncrypt(key, iv, Utf8Encode(plaintext))
      tag == AuthTag(key, iv, ciphertext)
  IN <<"v1", ":">> \o ToBase64(<<iv>>) \o <<":">> \o ToBase64(<<tag>>) \o <<":">>
       \o ToBase64(ciphertext)

RECURSIVE SplitColon(_, _)
\* enc.split(':'), cur being the part read so far
SplitColon(s, cur) ==
  IF s = <<>> THEN <<cur>>
  ELSE IF s[1] = ":" THEN <<cur>> \o SplitColon(Tail(s), <<>>)
  ELSE SplitColon(Tail(s), Append(cur, s[1]))
\* the i-th element of the destructured array, undefined read as empty
PartOf(parts, i) == IF i <= Len(parts) THEN parts[i] ELSE <<>>

Threw(e) == [ok |-> FALSE, error |-> e]
Returned(v) == [ok |-> TRUE, value |-> v]
\* decryptString(enc)
decryptString(enc, key) ==
  LET parts == SplitColon(enc, <<>>)
      v == PartOf(parts, 1)
      ivB64 == PartOf(parts, 2)
      tagB64 == PartOf(parts, 3)
      ctB64 == PartOf(parts, 4)
  IN IF v # <<"v1">> \/ ivB64 = <<>> \/ tagB64 = <<>> \/ ctB64 = <<>>
     THEN Threw("Invalid encrypted payload")
     ELSE LET iv == FromBase64(ivB64)[1]
              tag == FromBase64(tagB64)[1]
              ciphertext == FromBase64(ctB64)
          IN IF AuthTag(key, iv, ciphertext) # tag
             THEN Threw("Unsupported state or unable to authenticate data")
             ELSE Returned(Utf8Decode(GcmDecrypt(key, iv, ciphertext)))

IdleBox == [pc |-> "idle"]
\* encryptString(x) is called
BoxEncrypt(x, key, iv) ==
  /\ box.pc = "idle"
  /\ box' = [pc |-> "encrypted", x |-> x, key |-> key, enc |-> encryptString(x, key, iv)]
  /\ UNCHANGED <<pipe, store>>
  /\ UNCHANGED <<sessionVars, hookVars, outVars, authVars, flowVars, linkVars>>
\* decryptString is called on the stored payload under the same key
BoxDecrypt ==
  /\ box.pc = "encrypted"
  /\ box' = [pc |-> "decrypted", x |-> box.x, key |-> box.key, enc |-> box.enc,
             out |-> decryptString(box.enc, box.key)]
  /\ UNCHANGED <<pipe, store>>
  /\ UNCHANGED <<sessionVars, hookVars, outVars, authVars, flowVars, linkVars>>

CryptoNext ==
  \/ \E x \in Plaintexts, key \in CryptoKeys, iv \in Ivs : BoxEncrypt(x, key, iv)
  \/ BoxDecrypt

\* ------------------------------------------------- auth state persistence
\* real changes applied through the key store, timers armed and saveImmediate
\* calls of a run
MaxChanges == 2
MaxSaveNow == 2
\* names for the timers: a timer is armed or its callback runs, and only a
\* saveImmediate call lets a second one be armed meanwhile
MaxTimerIds == 2 * MaxSaveNow + 2
\* the closure of loadAuthState: mem is the version of { creds, keysData } in
\* memory, row the version held by WaSession.authStateEnc, handle the timer
\* saveTimeout refers to (0 is null), timers the armed timers, writes the
\* upserts in flight, returned the newest payload of a saveImmediate that has
\* returned (last tells the step that returned it from the others), written the newest version the row has held, leftArmed the timers
\* armed before that call and still armed at its return
IdleStore ==
  [mem |-> 0, row |-> 0, savePending |-> FALSE, handle |-> 0, timers |-> {},
   writes |-> {}, calls |-> 0, closed |-> FALSE, returned |-> 0, written |-> 0,
   leftArmed |-> {}, last |-> "none"]
\* the timer names in use: armed, or named by a callback that has not finished
UsedTimerIds(st) == st.timers \cup {w.id : w \in {x \in st.writes : x.kind = "debounced"}}
FreeTimerId(st) == CHOOSE id \in 1..MaxTimerIds : id \notin UsedTimerIds(st)
\* a free name is there whenever a timer is armed (invariant of SpecSave)
FreeIdExists == \E id \in 1..MaxTimerIds : id \notin UsedTimerIds(store)
\* triggerSave()
triggerSave(st) ==
  IF st.savePending THEN st
  ELSE [st EXCEPT !.savePending = TRUE,
                  !.timers = (@ \ {st.handle}) \cup {FreeTimerId(st)},
                  !.handle = FreeTimerId(st)]
StoreStep(st) ==
  /\ store' = st
  /\ UNCHANGED <<pipe, box>>
  /\ UNCHANGED <<sessionVars, hookVars, outVars, authVars, flowVars, linkVars>>
\* keys.set(update) with a real change, made by the socket while the session
\* is open: data is changed, then onUpdate()
KeySet ==
  /\ ~store.closed
  /\ store.mem < MaxChanges
  /\ StoreStep([triggerSave([store EXCEPT !.mem = @ + 1]) EXCEPT !.last = "step"])
\* save() from the periodic interval or after a handled batch, while the
\* session is open
PeriodicSave ==
  /\ ~store.closed
  /\ ~store.savePending
  /\ StoreStep([triggerSave(store) EXCEPT !.last = "step"])
\* the connection closes: the interval is cleared
StoreClose ==
  /\ ~store.closed
  /\ StoreStep([store EXCEPT !.closed = TRUE, !.last = "step"])
\* the timeout fires: the payload is serialized and the upsert issued
SaveTimerFire(id) ==
  /\ id \in store.timers
  /\ StoreStep([store EXCEPT
       !.timers = @ \ {id},
       !.writes = @ \cup {[id |-> id, kind |-> "debounced", payload |-> store.mem,
                           landed |-> FALSE, armed |-> {}]},
       !.last = "step"])
\* the database applies an upsert in flight; concurrent upserts are applied in
\* either order
WriteLand(w) ==
  /\ w \in store.writes
  /\ ~w.landed
  /\ StoreStep([store EXCEPT
       !.row = w.payload,
       !.written = IF w.payload > @ THEN w.payload ELSE @,
       !.writes = (@ \ {w}) \cup {[w EXCEPT !.landed = TRUE]},
       !.last = "step"])
\* the debounced callback resumes after its upsert: finally block
DebouncedFinish(w) ==
  /\ w \in store.writes
  /\ w.kind = "debounced" /\ w.landed
  /\ StoreStep([store EXCEPT
       !.savePending = FALSE, !.handle = 0, !.writes = @ \ {w}, !.last = "step"])
\* saveImmediate() up to its await
SaveNowCall ==
  /\ store.calls < MaxSaveNow
  /\ StoreStep([store EXCEPT
       !.timers = @ \ {store.handle},
       !.handle = 0,
       !.savePending = FALSE,
       !.calls = @ + 1,
       !.writes = @ \cup {[id |-> store.calls + 1, kind |-> "immediate",
                           payload |-> store.mem, landed |-> FALSE,
                           armed |-> store.timers \ {store.handle}]},
       !.last = "step"])
\* saveImmediate() returns
SaveNowReturn(w) ==
  /\ w \in store.writes
  /\ w.kind = "immediate" /\ w.landed
  /\ StoreStep([store EXCEPT
       !.writes = @ \ {w},
       !.returned = IF w.payload > @ THEN w.payload ELSE @,
       !.leftArmed = store.timers \cap w.armed,
       !.last = "saveNowReturn"])

SaveProgress ==
  \/ \E id \in 1..MaxTimerIds : SaveTimerFire(id)
  \/ \E w \in store.writes : WriteLand(w)
  \/ \E w \in store.writes : DebouncedFinish(w)
  \/ \E w \in store.writes : SaveNowReturn(w)
SaveNext ==
  \/ KeySet
  \/ PeriodicSave
  \/ StoreClose
  \/ SaveNowCall
  \/ SaveProgress

\* ------------------------------------------------- eviction of key entries
\* entries of one bucket of a run
MaxBucketEntries == 2
\* ids and key strings, character by character
KeyIds ==
  {<<"a">>, <<"a", ":", "1">>, <<"a", ".", "0">>, <<"a", "b">>, <<"b", "a">>,
   <<"b">>, <<"c">>}
Buckets == {"session", "sessions", "sender-key", "sender-key-memory", "pre-key"}
\* keysData: the buckets that exist and the ids of their entries; the entries of
\* a run are the same in every bucket that exists
KeysDatas ==
  {[b \in Buckets |-> [present |-> b \in bs, ids |-> IF b \in bs THEN ids ELSE {}]] :
     bs \in SUBSET Buckets,
     ids \in {s \in SUBSET KeyIds : Cardinality(s) <= MaxBucketEntries}}
\* the addresses handed to the eviction: null, a@s, b@l, @s
EvictJids == {Null, Str(<<"a", "@", "s">>), Str(<<"b", "@", "l">>), Str(<<"@", "s">>)}
\* s.startsWith(p), s.includes(p)
StartsWith(s, p) == Len(p) <= Len(s) /\ SubSeq(s, 1, Len(p)) = p
Includes(s, p) ==
  \E i \in 1..(Len(s) - Len(p) + 1) : SubSeq(s, i, i + Len(p) - 1) = p
\* jid ? String(jid).split('@')[0] : ''
UserPartOf(jid) ==
  IF Falsy(jid) THEN <<>>
  ELSE LET at == {i \in 1..Len(jid.v) : jid.v[i] = "@"} IN
       IF at = {} THEN jid.v
       ELSE SubSeq(jid.v, 1, (CHOOSE i \in at : \A k \in at : i <= k) - 1)
\* a test that takes every id beginning with the user part
matchesSessionIdAnyPrefix(id, userPart) == StartsWith(id, userPart)
matchesSessionId(id, userPart) ==
  \/ id = userPart
  \/ StartsWith(id, userPart \o <<":">>)
  \/ StartsWith(id, userPart \o <<".">>)
clearForUserPart(keysData, userPart) ==
  [b \in Buckets |->
     IF ~keysData[b].present THEN keysData[b]
     ELSE IF b \in {"session", "sessions"}
     THEN [keysData[b] EXCEPT !.ids = {id \in @ : ~matchesSessionId(id, userPart)}]
     ELSE IF b \in {"sender-key", "sender-key-memory"}
     THEN [keysData[b] EXCEPT !.ids = {k \in @ : ~Includes(k, userPart)}]
     ELSE keysData[b]]
\* the closure's state is its creds and its keysData
clearSenderSessionsInMemory(st, jid, from) ==
  LET jidUserPart == UserPartOf(jid)
      fromUserPart == UserPartOf(from)
      first == IF Len(jidUserPart) > 0
               THEN clearForUserPart(st.keysData, jidUserPart) ELSE st.keysData
  IN [st EXCEPT !.keysData =
        IF Len(fromUserPart) > 0 /\ fromUserPart # jidUserPart
        THEN clearForUserPart(first, fromUserPart) ELSE first]

\* loadAuthState has built the closure
EvictLoad(keysData) ==
  /\ store = IdleStore
  /\ StoreStep([pc |-> "loaded", st |-> [creds |-> "creds", keysData |-> keysData]])
\* clearSenderSessionsInMemory(jid, from)
EvictSender(jid, from) ==
  /\ store # IdleStore
  /\ store.pc = "loaded"
  /\ StoreStep([pc |-> "cleared", before |-> store.st, jid |-> jid, from |-> from,
                st |-> clearSenderSessionsInMemory(store.st, jid, from)])
EvictNext ==
  \/ \E keysData \in KeysDatas : EvictLoad(keysData)
  \/ \E jid \in EvictJids, from \in EvictJids : EvictSender(jid, from)

\* ------------------------------------------- errors in the event handlers
\* err.message of what handleMessagesUpsert throws, word by word
ErrorMessages ==
  {<<"Over 2000 messages into the future">>, <<"SessionError", "x">>,
   <<"x", "No matching sessions">>, <<"Bad", "message counter">>,
   <<"Failed to decrypt message">>, <<"failed to decrypt message">>, <<"timeout">>}
isSessionError(errorMessage) ==
  \/ Includes(errorMessage, <<"Over 2000 messages into the future">>)
  \/ Includes(errorMessage, <<"SessionError">>)
  \/ Includes(errorMessage, <<"No matching sessions">>)
  \/ Includes(errorMessage, <<"message counter">>)
  \/ Includes(errorMessage, <<"Failed to decrypt message">>)
\* the key data of the closure when the error is caught: a@... in every bucket
\* that exists
DesyncKeysDatas ==
  {kd \in KeysDatas :
     /\ \A b \in Buckets : kd[b].present => kd[b].ids = {<<"a">>}
     /\ {b \in Buckets : kd[b].present}
          \in {Buckets, {"session", "pre-key"}, {"sessions", "pre-key"}, {}}}
\* clearCorruptedSessions: delete keysData[keyType] for the three key types
clearCorruptedSessions(st) ==
  [st EXCEPT !.keysData =
     [b \in Buckets |->
        IF b \in {"session", "sender-key", "sender-key-memory"}
        THEN [present |-> FALSE, ids |-> {}] ELSE st.keysData[b]]]

\* the messages.upsert handler of socket s catches an error: a desync error
\* suspends it in handleSessionSyncError, any other error is written to
\* Device.lastError
UpsertThrows(s, errorMessage) ==
  /\ socks[s].phase = "open"
  /\ auth[s].recon = "none"
  /\ IF isSessionError(errorMessage)
     THEN /\ auth' = [auth EXCEPT ![s].recon = "desync"]
          /\ UNCHANGED device
     ELSE /\ device' = [device EXCEPT ![socks[s].dev].lastError = "messages.upsert"]
          /\ UNCHANGED auth
  /\ UNCHANGED <<waStore, sessions, socks, calls, timers, cmd, sweep>>
  /\ UNCHANGED <<hookVars, outVars, flowVars, linkVars, libVars>>

\* clearCorruptedSessions(): the three buckets are deleted and saveImmediate
\* writes the row; inflight tells that a callback of the save timer has
\* serialized the key data before and still awaits its upsert
DesyncClear(s, keysData, inflight) ==
  /\ auth[s].recon = "desync"
  /\ store = IdleStore
  /\ LET before == [creds |-> "creds", keysData |-> keysData]
         after == clearCorruptedSessions(before)
     IN store' = [pc |-> "cleared", sock |-> s, before |-> before, st |-> after,
                  row |-> after, inflight |-> inflight]
  /\ auth' = [auth EXCEPT ![s].recon = "update"]
  /\ UNCHANGED <<pipe, box, waStore, sessionVars, hookVars, outVars, flowVars, linkVars>>

\* the upsert of the save timer's callback lands
StaleWriteLands ==
  /\ store # IdleStore
  /\ store.inflight
  /\ store' = [store EXCEPT !.row = store.before, !.inflight = FALSE]
  /\ UNCHANGED <<pipe, box, sessionVars, hookVars, outVars, authVars, flowVars, linkVars>>

\* handleSessionSyncError: the Device row is updated
DesyncUpdate(s) ==
  /\ auth[s].recon = "update"
  /\ auth' = [auth EXCEPT ![s].recon = "end"]
  /\ device' = [device EXCEPT ![socks[s].dev].status = "OFFLINE",
                              ![socks[s].dev].lastError = "session_sync_error"]
  /\ UNCHANGED <<waStore, sessions, socks, calls, timers, cmd, sweep>>
  /\ UNCHANGED <<hookVars, outVars, flowVars, linkVars, libVars>>

\* handleSessionSyncError: if the map has an entry not closing, it is marked
\* closing and deleted, this socket is ended, connect is set at +5 s
DesyncTeardown(s) ==
  LET d == socks[s].dev IN
  /\ auth[s].recon = "end"
  /\ auth' = [auth EXCEPT ![s].recon = "none"]
  /\ IF sessions[d].present /\ ~sessions[d].closing
     THEN /\ sessions' = [sessions EXCEPT ![d] = NoEntry]
          /\ socks' = EndSocket(socks, s, "session_sync_error")
          /\ timers' = [timers EXCEPT ![d].plain = @ + 1]
          /\ device' = IF Live(s)
                       THEN [device EXCEPT ![d] =
                               [status |-> "OFFLINE", qr |-> "null",
                                lastError |-> "session_sync_error"]]
                       ELSE device
     ELSE UNCHANGED <<sessions, socks, timers, device>>
  /\ UNCHANGED <<waStore, calls, cmd, sweep, hookVars, outVars, flowVars, linkVars, libVars>>

\* creds.update whose save.immediate() throws: the catch writes lastError; if
\* that write throws as well the handler's promise is rejected
CredsSaveFails(s, annotated) ==
  /\ Live(s)
  /\ IF annotated
     THEN /\ device' = [device EXCEPT ![socks[s].dev].lastError = "saveState"]
          /\ UNCHANGED auth
     ELSE /\ auth' = [auth EXCEPT ![s].rejected = TRUE]
          /\ UNCHANGED device
  /\ UNCHANGED <<waStore, sessions, socks, calls, timers, cmd, sweep>>
  /\ UNCHANGED <<hookVars, outVars, flowVars, linkVars, libVars>>

\* sockets made in a behaviour of the error handlers
MaxDesyncSockets == 2
\* one device connected and disconnected by command, and the errors its
\* handlers meet
DesyncNext ==
  \/ \E d \in Devices : Len(socks) < MaxDesyncSockets /\ CmdConnect(d)
  \/ CmdReturn
  \/ \E d \in Devices : CmdDisconnect(d)
  \/ \E o \in Origins, d \in Devices : ConnectFinishOk(o, d)
  \/ \E s \in 1..Len(socks) : SockConnecting(s)
  \/ \E s \in 1..Len(socks) : SockOpen(s)
  \/ \E s \in 1..Len(socks) : CloseResume(s)
  \/ \E d \in Devices, tag \in {"plain", "disc"} :
       Len(socks) < MaxDesyncSockets /\ TimerFire(d, tag)
  \/ \E s \in 1..Len(socks), m \in ErrorMessages : UpsertThrows(s, m)
  \/ \E s \in 1..Len(socks), kd \in DesyncKeysDatas, fl \in BOOLEAN : DesyncClear(s, kd, fl)
  \/ StaleWriteLands
  \/ \E s \in 1..Len(socks) : DesyncUpdate(s)
  \/ \E s \in 1..Len(socks) : DesyncTeardown(s)
  \/ \E s \in 1..Len(socks), ok \in BOOLEAN : CredsSaveFails(s, ok)

PipeInit == pipe = IdlePipe
BoxInit == box = IdleBox
StoreInit == store = IdleStore

Init == SessionInit /\ HookInit /\ OutInit /\ AuthInit /\ FlowInit /\ LinkInit
        /\ PipeInit /\ BoxInit /\ StoreInit

SessionNext ==
  \/ \E d \in Devices : CmdConnect(d)
  \/ CmdReturn
  \/ \E d \in Devices : CmdDisconnect(d)
  \/ \E o \in Origins, d \in Devices : ConnectFinishOk(o, d)
  \/ \E o \in Origins, d \in Devices : ConnectFinishErr(o, d)
  \/ \E s \in 1..Len(socks) : SockConnecting(s)
  \/ \E s \in 1..Len(socks) : SockConnectingErr(s)
  \/ \E s \in 1..Len(socks) : SockQr(s)
  \/ \E s \in 1..Len(socks) : SockOpen(s)
  \/ \E s \in 1..Len(socks), r \in CloseReasons : SockClose(s, r)
  \/ \E s \in 1..Len(socks) : CloseResume(s)
  \/ \E d \in Devices, tag \in {"plain", "disc"} : TimerFire(d, tag)
  \/ SweepStart
  \/ SweepVisit

SpecSession == Init /\ [][SessionNext]_vars

\* a timer set with setTimeout fires
SessionFairness == \A d \in Devices : WF_vars(\E tag \in {"plain", "disc"} : TimerFire(d, tag))
SpecSessionFair == SpecSession /\ SessionFairness
\* the session manager with every Device write of the connection.update handler
QrFieldNext ==
  \/ SessionNext
  \/ \E s \in 1..Len(socks) : SockOpenErr(s)
SpecQrField == Init /\ [][QrFieldNext]_vars
\* the outbound worker with a database that may fail the write of SENT
ResendNext ==
  \/ OutboundNext
  \/ \E i \in 1..Len(outJobs) : SendOkUpdateThrows(i)
SpecResend == Init /\ [][ResendNext]_vars
SpecEvict == Init /\ [][EvictNext]_vars
SpecDesync == Init /\ [][DesyncNext]_vars
SpecInbound == Init /\ [][InboundNext]_vars
SpecWebhook == Init /\ [][WebhookNext]_vars
SpecOutbound == Init /\ [][OutboundNext]_vars

\* one device connected by command, its key store and the reconcile signal
ReconcileNext ==
  \/ \E d \in Devices : CmdConnect(d)
  \/ CmdReturn
  \/ \E o \in Origins, d \in Devices : ConnectFinishOk(o, d)
  \/ \E s \in 1..Len(socks) : SockConnecting(s)
  \/ \E s \in 1..Len(socks) : SockOpen(s)
  \/ \E s \in 1..Len(socks) : CloseResume(s)
  \/ \E d \in Devices, tag \in {"plain", "disc"} : TimerFire(d, tag)
  \/ \E s \in 1..Len(socks) : KeysUpdate(s)
  \/ \E s \in 1..Len(socks) : SaveFire(s)
  \/ \E s \in 1..Len(socks) : ReconStart(s)
  \/ \E s \in 1..Len(socks) : ReconClear(s)
  \/ \E s \in 1..Len(socks) : ReconTeardown(s)
SpecReconcile == Init /\ [][ReconcileNext]_vars
SpecFlow == Init /\ [][FlowNext]_vars
SpecQrLink == Init /\ [][QrLinkNext]_vars
SpecNormalize == Init /\ [][NormalizeNext]_vars
SpecSweep == Init /\ [][SweepNext]_vars
\* timers fire and the awaited calls of the sweep return
SpecSweepFair == SpecSweep /\ WF_vars(SweepProgress)
SpecDispatch == Init /\ [][DispatchNext]_vars
SpecHandler == Init /\ [][HandlerNext]_vars
SpecCrypto == Init /\ [][CryptoNext]_vars
SpecSave == Init /\ [][SaveNext]_vars
\* timers fire, the database answers, the awaiting callbacks resume, and the
\* interval fires while the session is open
SpecSaveFair == SpecSave /\ WF_vars(SaveProgress) /\ WF_vars(PeriodicSave)

\* ------------------------------------------------------ claims: sessions
Pending(d) == timers[d].plain + timers[d].disc
\* the Device is OFFLINE and has neither a map entry nor a live socket
Quiet(d) ==
  /\ device[d].status = "OFFLINE"
  /\ ~sessions[d].present
  /\ LiveSockets(d) = {}
\* the most recent socket of the device was closed with reason loggedOut and
\* its close handler has run to the end
LoggedOutLast(d) ==
  \E s \in 1..Len(socks) :
    /\ socks[s].dev = d
    /\ \A t \in 1..Len(socks) : socks[t].dev = d => t <= s
    /\ socks[s].closeStep = "done"
    /\ socks[s].reason = "loggedOut"

\* C1: a worker process never holds more than one live (constructed and not yet
\* ended) transport socket for the same deviceId, whatever the interleaving of
\* connect commands, the startup sweep and the delayed reconnect timers.
C1_SingleLiveSocket == \A d \in Devices : Cardinality(LiveSockets(d)) <= 1

\* C8: a disconnect command processed while a delayed reconnect of the device is
\* pending prevents that reconnect: the connect() the timer calls constructs no
\* socket (as long as no new connect command has been processed).
C8_DisconnectPreventsReconnect ==
  [][\A d \in Devices :
       ~(calls'["timerD"][d] < calls["timerD"][d] /\ Len(socks') > Len(socks))]_vars

C9_CloseStep ==
  \A s \in 1..Len(socks) :
    LET d == socks[s].dev IN
      ( /\ socks[s].closeStep = "pending"
        /\ socks'[s].closeStep = "done"
        /\ sessions[d].present /\ ~sessions[d].closing
        /\ socks[s].reason # "loggedOut" )
      => ( /\ ~sessions'[d].present
           /\ Pending(d)' = Pending(d) + 1 )
C10_LoggedOutStep ==
  \A s \in 1..Len(socks) :
    LET d == socks[s].dev IN
      ( /\ socks[s].closeStep = "pending"
        /\ socks'[s].closeStep = "done"
        /\ socks[s].reason = "loggedOut" )
      => ( ~sessions'[d].present /\ timers' = timers )
C10_StaysStep ==
  \A d \in Devices :
    (LoggedOutLast(d) /\ Quiet(d) /\ cmd' = cmd /\ sweep' = sweep) => Quiet(d)'
C10_LoggedOutIsTerminal == [][C10_LoggedOutStep /\ C10_StaysStep]_vars

\* ------------------------------------------------------ claims: outbound
OutboundTransitions ==
  {<<"QUEUED", "PROCESSING">>, <<"PROCESSING", "SENT">>,
   <<"PROCESSING", "FAILED">>, <<"QUEUED", "FAILED">>}

\* C2: the status values of an OutboundMessage row form a prefix of
\* [QUEUED, PROCESSING, SENT], [QUEUED, PROCESSING, FAILED] or [QUEUED, FAILED]:
\* every change of status is one of these steps, and SENT and FAILED are final,
\* also across the broker's retries of the send job.
C2_OutboundStatusSteps ==
  [][\A i \in 1..Len(outRows) :
       outRows'[i].status # outRows[i].status
         => <<outRows[i].status, outRows'[i].status>> \in OutboundTransitions]_vars

\* ------------------------------------------------------ claims: webhooks
DeliveriesOf(ev) == {i \in 1..Len(deliveries) : deliveries[i].event = ev}
JobPending(i) == jobs[i].state \in {"waiting", "delayed", "active"}
Retryable(i) == deliveries[i].status \in {"PENDING", "FAILED"}

C4_FanOutMatchesEnabled ==
  \A ev \in 1..Len(events) :
    events[ev].fannedOut =>
      /\ {deliveries[i].endpoint : i \in DeliveriesOf(ev)} = events[ev].enabledAtCreate
      /\ Cardinality(DeliveriesOf(ev)) = Cardinality(events[ev].enabledAtCreate)

\* C5: when every POST of a delivery fails, the row's attempts equals the number
\* k of failures so far, the row is FAILED with nextRetryAt set for k = 1..4 and
\* DLQ with attempts = 5 and nextRetryAt = null only after the 5th failure, when
\* the broker makes no further attempt; 5 POSTs are made, no more.
C5_AttemptsCountFailures ==
  \A i \in 1..Len(deliveries) :
    LET k == jobs[i].attemptsMade
        row == deliveries[i]
    IN (k >= 1 /\ row.status # "SUCCESS") =>
         /\ row.attempts = k
         /\ posts[i] <= WebhookAttempts
         /\ (k < WebhookAttempts => row.status = "FAILED" /\ row.nextRetryAt # "null")
         /\ (row.status = "DLQ" =>
               k = WebhookAttempts /\ row.nextRetryAt = "null" /\ jobs[i].state = "failed")

C7_DlqIsTerminal ==
  [][\A i \in 1..Len(deliveries) :
       deliveries[i].status = "DLQ"
         => deliveries'[i].status = "DLQ" /\ posts'[i] = posts[i]]_vars

\* ------------------------------------------------ claims: device status
SessionPhaseSteps ==
  {<<"new", "connecting">>, <<"connecting", "qr">>, <<"connecting", "open">>,
   <<"qr", "open">>, <<"new", "ended">>, <<"connecting", "ended">>,
   <<"qr", "ended">>, <<"open", "ended">>}

\* C11: within one session the values written to Device.status come in the
\* order OFFLINE, QR (optional), ONLINE, OFFLINE, and an ERROR on the Device row
\* is replaced by another status only by a new connect attempt (a connect()
\* that passes its has() check), never by a later event of the session.  The
\* write of a disconnect command (the only status write that changes the map)
\* is let through.
C11_OrderStep ==
  \A s \in 1..Len(socks) :
    socks'[s].phase # socks[s].phase
      => <<socks[s].phase, socks'[s].phase>> \in SessionPhaseSteps
C11_ErrorStep ==
  \A d \in Devices :
    (device[d].status = "ERROR" /\ device'[d].status # "ERROR" /\ sessions' = sessions)
      => InFlight(d)' > InFlight(d)
C11_StatusSequence == [][C11_OrderStep /\ C11_ErrorStep]_vars

\* ---------------------------------------------------- claims: reconcile
\* the upsert handler of socket s ends its teardown step, the map holding this
\* socket's entry, not closing
ReconTeardownOf(s) ==
  /\ auth[s].recon = "teardown" /\ auth'[s].recon = "none"
  /\ sessions[socks[s].dev].present
  /\ sessions[socks[s].dev].socket = s
  /\ ~sessions[socks[s].dev].closing

\* C12: on a reconcile signal the sender's session and sender-key entries are
\* evicted and the result persisted before the socket is torn down (at the
\* teardown neither the socket's key data nor the stored state holds them), the
\* teardown ends the socket, removes the entry and schedules exactly one
\* connect, and the close event of the teardown schedules none.
C12_TeardownStep ==
  \A s \in 1..Len(socks) :
    ReconTeardownOf(s) =>
      /\ ~auth[s].mem /\ ~waStore[socks[s].dev]
      /\ socks'[s].phase = "ended" /\ ~sessions'[socks[s].dev].present
      /\ Pending(socks[s].dev)' = Pending(socks[s].dev) + 1
C12_CloseStep ==
  \A s \in 1..Len(socks) :
    ( /\ socks[s].closeStep = "pending" /\ socks'[s].closeStep = "done"
      /\ socks[s].reason = "no_matching_sessions_reconnect" )
    => timers' = timers
C12_ReconcileSequence == [][C12_TeardownStep /\ C12_CloseStep]_vars

\* the state a reconnect loads after a reconcile: an entry the clear removed
\* from the stored state does not come back through a save of the ended socket
ReconcileEvictionLasts ==
  [][\A s \in 1..Len(socks) :
       (auth[s].saveTimer /\ ~auth'[s].saveTimer /\ ~Live(s))
         => (waStore'[socks[s].dev] => waStore[socks[s].dev])]_vars

\* ------------------------------------------------ claims: outbound errors
\* C13: when the transport send of an outbound job raises, the row stays
\* PROCESSING if the job will be retried, and becomes FAILED with the raised
\* message as error when the attempt was the last one.
C13_SendRaisedStep ==
  \A i \in 1..Len(outRows) :
    outJobs'[i].attemptsMade > outJobs[i].attemptsMade =>
      IF outJobs'[i].state = "delayed"
      THEN outRows'[i].status = "PROCESSING"
      ELSE outRows'[i].status = "FAILED" /\ outRows'[i].error = "send_error"
C13_FailedOnlyAfterLastAttempt == [][C13_SendRaisedStep]_vars

\* the prerequisites the attempt of job i finds missing
MissingPrereqs(i) ==
  LET d == outRows[i].dev IN
  {e \in PrereqErrors :
     \/ e = "device_not_found" /\ outJobs[i].read.device = "null"
     \/ /\ e \in {"device_not_online:OFFLINE", "device_not_online:QR", "device_not_online:ERROR"}
        /\ outJobs[i].read.device = "row"
        /\ device[d].status # "ONLINE"
     \/ e = "device_not_connected" /\ ~sessions[d].present
     \/ e = "socket_not_authenticated" /\ sessions[d].present /\ ~outJobs[i].read.user
     \/ e = "unsupported_type:image" /\ outRows[i].type # "text"}

\* C14: when the attempt of a send job finds the Device missing or not ONLINE,
\* no registered socket, a socket without user, or a type other than text, the
\* row becomes FAILED with an error naming a missing prerequisite, no transport
\* command is issued, and the job completes without a retry.
C14_PrereqStep ==
  \A i \in 1..Len(outRows) :
    (outJobs[i].state = "active" /\ outJobs'[i] # outJobs[i] /\ MissingPrereqs(i) # {})
      => /\ outRows'[i].status = "FAILED"
         /\ outRows'[i].error \in MissingPrereqs(i)
         /\ outJobs'[i].commands = outJobs[i].commands
         /\ outJobs'[i].attemptsMade = outJobs[i].attemptsMade
         /\ outJobs'[i].state = "completed"
DeliveredBefore(a, b) == a[1] < b[1] \/ (a[1] = b[1] /\ a[2] < b[2])
OverlappingRuns ==
  \E r \in 1..Len(runs), s \in 1..Len(runs) :
    r < s /\ runs[r].pc = "await" /\ runs[s].pc = "await"

\* C15: the Event rows are created in the order in which the transport
\* delivered the messages, within a batch and across batches, also when a later
\* batch arrives while an earlier one is still being processed.
C15_EventsInDeliveryOrder ==
  \A i \in 1..Len(eventLog), j \in 1..Len(eventLog) :
    i < j => DeliveredBefore(eventLog[i], eventLog[j])

\* C16: the event handling of one device is single-flight: a handler runs to
\* completion before the next one starts.
C16_SingleFlight == ~OverlappingRuns

\* C20: an Event row is created only for a message of a messages.upsert of type
\* notify whose key has a remoteJid, is not fromMe and is not the status
\* broadcast.
C20_EventsOnlyForNotifyInbound ==
  \A i \in 1..Len(eventLog) :
    LET r == eventLog[i][1]
        j == eventLog[i][2] IN
    runs[r].type = "notify" /\ runs[r].msgs[j] = "inbound"

\* ------------------------------------------------ claims: public QR links
\* C17: once connection.update{open} of a device has been handled, every
\* PublicQrLink of the device has expiresAt <= now, and a link that has expired
\* stays expired.
C17_OpenStep ==
  \A s \in 1..Len(socks) :
    (socks[s].phase # "open" /\ socks'[s].phase = "open")
      => \A i \in 1..Len(links') :
           links'[i].dev = socks[s].dev => links'[i].expiresAt <= now'
C17_StaysStep ==
  \A i \in 1..Len(links) :
    links[i].expiresAt <= now => links'[i].expiresAt <= now'
ConnectCalled(d) == CmdConnect(d) \/ \E tag \in {"plain", "disc"} : TimerFire(d, tag)

\* C18: connect(deviceId) called while a session entry of the device exists
\* writes no Device row, loads no auth state and constructs no socket: the state
\* is the one the first connect left.
C18_ConnectStep ==
  \A d \in Devices :
    (sessions[d].present /\ ConnectCalled(d))
      => /\ device' = device
         /\ sessions' = sessions
         /\ socks' = socks
         /\ auth' = auth
         /\ waStore' = waStore
         /\ InFlight(d)' = InFlight(d)
C18_ConnectIdempotent == [][C18_ConnectStep]_vars
\* the connect of a command has returned at once for a device that is ONLINE
\* with the socket of the first connect
C18_Witness ==
  /\ cmd.pc = "return"
  /\ Len(socks) = 1
  /\ sessions[cmd.dev] = Entry(1)
  /\ socks[1].phase = "open"
  /\ device[cmd.dev].status = "ONLINE"
  /\ InFlight(cmd.dev) = 0

\* disconnect(d) on a device with an entry ends the socket, removes the entry
\* and writes Device OFFLINE with qr null
C19_WithEntryStep ==
  \A d \in Devices :
    (sessions[d].present /\ CmdDisconnect(d))
      => /\ ~sessions'[d].present
         /\ socks'[sessions[d].socket].phase = "ended"
         /\ device'[d].status = "OFFLINE"
         /\ device'[d].qr = "null"
\* disconnect(d) on a device without an entry changes neither the map nor a
\* Device row
C19_NoEntryStep ==
  \A d \in Devices :
    (~sessions[d].present /\ CmdDisconnect(d))
      => sessions' = sessions /\ device' = device /\ socks' = socks
\* the close handler of a socket that disconnect() ended schedules no reconnect
C19_CloseStep ==
  \A s \in 1..Len(socks) :
    ( /\ socks[s].closeStep = "pending"
      /\ socks'[s].closeStep = "done"
      /\ socks[s].reason = "disconnect" )
      => Pending(socks[s].dev)' <= Pending(socks[s].dev)

\* C19: disconnect(deviceId) on a device with an entry ends the socket, removes
\* the entry and sets the Device OFFLINE with qr null, and the close event that
\* the end causes schedules no reconnect; on a device with no entry it changes
\* neither the map nor any Device row.
C19_DisconnectEffects == [][C19_WithEntryStep /\ C19_NoEntryStep /\ C19_CloseStep]_vars

\* ------------------------------------------------------ claims: normalizer
TextFields(msg) ==
  <<msg.conversation, msg.extendedText,
    IF msg.image.present THEN msg.image.caption ELSE Null,
    IF msg.video.present THEN msg.video.caption ELSE Null>>
MediaPresent(msg) == msg.image.present \/ msg.video.present \/ msg.audio \/ msg.document
StubMarked(m) == m.stubType \/ Len(m.stubParams) > 0
\* the type the rules give, a text field being present when it is not null
\* (emptyCounts) or when it is a non-empty string (~emptyCounts)
RuleType(m, emptyCounts) ==
  LET textPresent ==
        \E i \in 1..4 : LET f == TextFields(m.message)[i] IN
                          ~f.isNull /\ (emptyCounts \/ f.v # <<>>)
  IN IF StubMarked(m) /\ ~textPresent /\ ~MediaPresent(m.message) THEN "stub"
     ELSE IF textPresent THEN "text"
     ELSE IF MediaPresent(m.message) THEN "media"
     ELSE "unknown"

\* C26: the normalizer gives every envelope the content.type of the first rule
\* that matches, in the order stub, text, media, unknown (with either reading
\* of a text field that is present but empty).
C26_FirstMatchingRule ==
  pipe.pc = "normalized" =>
    pipe.norm.content.type \in {RuleType(pipe.env, TRUE), RuleType(pipe.env, FALSE)}

IsOneToOne(j) == j.server \in {"s.whatsapp.net", "c.us", "lid"}
\* the chat id of an envelope: the participant for a message of a broadcast
\* list that names one, the remote JID otherwise
ChatIdOf(m) ==
  IF m.key.remoteJid = ListJid /\ ~m.key.fromMe /\ m.key.participant # NoJid
  THEN m.key.participant
  ELSE m.key.remoteJid
\* a user address without its device suffix, c.us written s.whatsapp.net
UserForm(j) ==
  [j EXCEPT !.device = 0, !.server = IF @ = "c.us" THEN "s.whatsapp.net" ELSE @]

\* C27 (as claimed): for a 1:1 message from is the senderPn when the envelope
\* has one and the chat id otherwise; for a group or broadcast chat id from is
\* the chat id.
C27_FromAddress_Original ==
  pipe.pc = "normalized" =>
    LET c == ChatIdOf(pipe.env) IN
      pipe.norm.from = IF IsOneToOne(c) /\ pipe.env.key.senderPn # NoJid
                       THEN pipe.env.key.senderPn ELSE c

\* C27: for a 1:1 message from is the user form (no device suffix, c.us written
\* s.whatsapp.net) of the senderPn when the envelope has one and of the chat id
\* otherwise; for a group or broadcast chat id from is the chat id as it is.
C27_FromAddress ==
  pipe.pc = "normalized" =>
    LET c == ChatIdOf(pipe.env) IN
      pipe.norm.from = IF IsOneToOne(c)
                       THEN UserForm(IF pipe.env.key.senderPn # NoJid
                                     THEN pipe.env.key.senderPn ELSE c)
                       ELSE c
\* a message of a linked-id chat whose key carries a senderPn with a device
\* suffix has been normalized
C27_Witness ==
  /\ pipe.pc = "normalized"
  /\ pipe.env.key.remoteJid = UserJid("a", 0, "lid")
  /\ pipe.env.key.senderPn = UserJid("b", 1, "s.whatsapp.net")
  /\ pipe.norm.from = UserJid("b", 0, "s.whatsapp.net")

\* ------------------------------------------------ claims: encryption at rest
\* C28: for every plaintext, the empty string included, decrypting what
\* encryptString returned under the same key returns the plaintext.
C28_RoundTrip ==
  box.pc = "decrypted" => box.out = Returned(box.x)
\* the same for the plaintexts that are not empty and are well-formed text
C28_RoundTripNonEmpty ==
  (box.pc = "decrypted" /\ box.x # <<>> /\ \A i \in 1..Len(box.x) : box.x[i] # "lone")
    => box.out = Returned(box.x)

\* ----------------------------------------- claims: auth state persistence
\* C29: every real change applied through the key store's set is eventually
\* written to the WaSession row, database writes succeeding, whenever it
\* happens relative to a debounced write and whether or not the session is
\* closed afterwards.
C29_ChangeEventuallyWritten ==
  \A v \in 1..MaxChanges : (store.mem >= v) ~> (store.written >= v)

C30_NoTimerLeft == store.last = "saveNowReturn" => store.leftArmed = {}
C30_RowNotOlder == store.row >= store.returned
\* C30: when saveImmediate returns, no debounced save timer that was armed
\* before the call is still pending, and from then on the row holds the state
\* as of that call or a newer one.
C30_SaveNowDurable == C30_NoTimerLeft /\ C30_RowNotOlder

\* -------------------------------------------- claims: stubs in the handler
C21_Phrases ==
  {<<"no matching sessions found for message">>, <<"bad", " ", "mac">>,
   <<"failed to decrypt message">>}
\* two words are the same but for the case of their letters
C21_SameButCase(w, v) ==
  \/ w = v
  \/ w \in {"Bad", "bad"} /\ v \in {"Bad", "bad"}
  \/ w \in {"MAC", "mac"} /\ v \in {"MAC", "mac"}
  \/ /\ w \in {"No matching sessions found for message",
               "no matching sessions found for message"}
     /\ v \in {"No matching sessions found for message",
               "no matching sessions found for message"}
  \/ /\ w \in {"Failed to decrypt message", "failed to decrypt message"}
     /\ v \in {"Failed to decrypt message", "failed to decrypt message"}
\* the text holds one of the phrases, case apart
C21_Matches(text) ==
  \E p \in C21_Phrases : \E i \in 1..Len(text) :
    /\ i + Len(p) - 1 <= Len(text)
    /\ \A j \in 1..Len(p) : C21_SameButCase(text[i + j - 1], p[j])
C21_TextOf(norm) == IF norm.content.text.isNull THEN <<>> ELSE norm.content.text.v
\* the step handles a message that was normalized as stub
C21_StubHandled ==
  /\ pipe.pc = "loop" /\ pipe'.pc = "loop" /\ pipe'.left = pipe.left - 1
  /\ pipe'.last.handled
  /\ pipe'.last.norm.content.type = "stub"
C21_StubStep ==
  C21_StubHandled =>
    LET db == pipe.db
        after == pipe'.db
        ev == Len(db.events) + 1
    IN IF C21_Matches(C21_TextOf(pipe'.last.norm))
       THEN /\ Len(after.events) = ev
            /\ SubSeq(after.events, 1, Len(db.events)) = db.events
            /\ after.events[ev].decryptionFailed
            /\ Len(after.deliveries) = Len(db.deliveries) + Len(pipe.snapshot)
            /\ \A i \in 1..Len(pipe.snapshot) :
                 /\ after.deliveries[Len(db.deliveries) + i] =
                      [endpointId |-> pipe.snapshot[i], eventId |-> ev]
                 /\ \E j \in (Len(db.jobs) + 1)..Len(after.jobs) :
                      after.jobs[j].deliveryId = Len(db.deliveries) + i
            /\ pipe'.result.set
       ELSE /\ after.events = db.events
            /\ after.deliveries = db.deliveries
            /\ after.jobs = db.jobs
            /\ after.outbound = db.outbound
            /\ after.enabled = db.enabled
            /\ after.lastSeenAt # db.lastSeenAt
            /\ \A d \in DOMAIN DeviceTenant \ {pipe.dev} :
                 after.lastSeenAt[d] = db.lastSeenAt[d]
            /\ pipe'.result = pipe.result
\* a signal set during the loop stays set and is what the call returns
C21_SignalStep ==
  /\ (pipe.pc = "loop" /\ pipe'.pc = "loop" /\ pipe.result.set) => pipe'.result.set
  /\ (pipe.pc = "loop" /\ pipe'.pc = "idle") => pipe'.returned = pipe.result

C25_TenantIsolation ==
  LET db == pipe.db IN
    /\ \A i \in 1..Len(db.events) :
         db.events[i].tenantId = DeviceTenant[db.events[i].deviceId]
    /\ \A i \in 1..Len(db.outbound) :
         db.outbound[i].tenantId = DeviceTenant[db.outbound[i].deviceId]
    /\ \A i \in 1..Len(db.deliveries) :
         db.events[db.deliveries[i].eventId].tenantId =
           EndpointTenant[db.deliveries[i].endpointId]
\* an Event of a device was fanned out while an endpoint of the other tenant
\* was enabled, and an OutboundMessage row exists
C25_Witness ==
  /\ pipe.pc = "loop"
  /\ pipe.last.handled
  /\ \E i \in 1..Len(pipe.db.deliveries) :
       pipe.db.deliveries[i].eventId = Len(pipe.db.events)
  /\ \E e \in pipe.db.enabled : EndpointTenant[e] # DeviceTenant[pipe.dev]
  /\ pipe.db.outbound # <<>>

\* ------------------------------------------- claims: webhook dispatch worker
\* the job of delivery i is taken by the processor in this step
C22_Taken(i) ==
  /\ jobs[i].state \in {"waiting", "delayed"}
  /\ jobs'[i].state \notin {"waiting", "delayed"}
C22_SkipStep ==
  \A i \in 1..Len(jobs) :
    (C22_Taken(i) /\ (RowMissing(i) \/ ~endpointEnabled[deliveries[i].endpoint]))
      => /\ jobs'[i].state = "skipped"
         /\ posts' = posts
         /\ deliveries' = deliveries
C22_SkippedStep ==
  \A i \in 1..Len(jobs) :
    jobs[i].state = "skipped"
      => /\ jobs'[i] = jobs[i]
         /\ posts'[i] = posts[i]
         /\ deliveries'[i] = deliveries[i]

\* C22: a deliver job whose delivery row is missing or whose endpoint is
\* disabled when it is processed sends no HTTP request and leaves the
\* WebhookDelivery row as it is, then and afterwards.
C22_SkipLeavesRow == [][C22_SkipStep /\ C22_SkippedStep]_vars
\* a job was skipped for an endpoint disabled after a failed attempt: one
\* POST was sent, the row is still FAILED
C22_Witness ==
  \E i \in 1..Len(jobs) :
    /\ jobs[i].state = "skipped"
    /\ ~endpointEnabled[deliveries[i].endpoint]
    /\ deliveries[i].status = "FAILED"
    /\ posts[i] = 1
\* a job was skipped for a missing row
C22_MissingSkipped == \E i \in 1..Len(jobs) : jobs[i].state = "skipped" /\ RowMissing(i)

\* C23: a POST that gets no response is abandoned after the request timeout:
\* no deliver job is still awaiting a response once that time has passed.
C23_NoJobOverdue == \A i \in 1..Len(jobs) : jobs[i].state # "overdue"

\* ------------------------------------------------ claims: startup sweep
C24_Listed == {sweep.list[k] : k \in 1..Len(sweep.list)}
C24_Called == {sweep.called[k] : k \in 1..Len(sweep.called)}
\* the calls follow the order of the list
C24_InOrder ==
  \A a, b \in 1..Len(sweep.called) :
    a < b => \E i, j \in 1..Len(sweep.list) :
               i < j /\ sweep.list[i] = sweep.called[a] /\ sweep.list[j] = sweep.called[b]
\* C24 (as claimed): when the sweep is over connect was called for every device
\* of the list.
C24_SweepCoversAll_Original ==
  sweep.pc = "done" => C24_Called = C24_Listed

C24_Covered ==
  sweep.pc = "done" =>
    /\ C24_Called \cup sweep.skipped = C24_Listed
    /\ C24_Called \cap sweep.skipped = {}
    /\ sweep.logged \subseteq C24_Called
    /\ C24_InOrder
\* C24: the sweep calls connect, in the order of the list and one call at a
\* time, for every device with a WaSession row that has no session entry when
\* its turn comes (a device that has one is passed over); a connect that fails
\* is logged and the later devices still get their turn; the sweep ends after
\* the last device.
C24_SweepCoversAll == [](sweep.pc # "delay" => C24_Covered) /\ <>(sweep.pc = "done")
\* the sweep is over: the connect of a device failed and was logged, and
\* connect was called for a device that comes later in the list
C24_Witness ==
  /\ sweep.pc = "done"
  /\ \E i, j \in 1..Len(sweep.list) :
       /\ i < j
       /\ sweep.list[i] \in sweep.logged
       /\ sweep.list[j] \in C24_Called
       /\ sweep.list[j] \in sweep.entries

\* ------------------------------------------------ claims: the qr column
\* C39: in every reachable state a Device row has a non-null qr only while its
\* status is QR.
C39_QrOnlyWhileQr ==
  \A d \in Devices : device[d].qr # "null" => device[d].status = "QR"

\* ------------------------------------------------ claims: outbound resend
\* C38: for each OutboundMessage row sendMessage returns successfully at most
\* once over all attempts of its send job.
C38_SentAtMostOnce ==
  \A i \in 1..Len(outJobs) : outJobs[i].accepted <= 1

\* ------------------------------------- claims: several senders in one batch
\* String(jid).split('@')[0] of the addresses of a reconcile signal
C37_UserParts(signal) ==
  {<<j.user, j.device>> : j \in {signal.remoteJid, signal.senderPn} \ {NoJid}}
\* C37: a sender whose decryption-failure stub was met in a batch is still
\* covered by the reconcile signal after the later messages of the batch: no
\* turn of the loop drops a user part from the signal the handler will return,
\* so the reconcile step evicts the keys of every such sender.
C37_EverySenderKept ==
  [][(pipe.pc = "loop" /\ pipe'.pc = "loop" /\ pipe.result.set)
       => (pipe'.result.set
           /\ <<pipe.result.remoteJid.user, pipe.result.remoteJid.device>>
                \in C37_UserParts(pipe'.result))]_vars

\* ------------------------------------------------ claims: reconnect timers
\* C36: at any moment at most one delayed reconnect (a pending timer that will
\* call connect) exists per device.
C36_OneReconnectTimer ==
  \A d \in Devices : timers[d].plain + timers[d].disc <= 1

\* ------------------------------------------------ claims: stale handlers
\* the close handler of socket s resumes while the map holds the entry of
\* another socket of the same device
C35_StaleResume(s) ==
  /\ socks[s].closeStep = "pending"
  /\ socks'[s].closeStep = "done"
  /\ sessions[socks[s].dev].present
  /\ sessions[socks[s].dev].socket # s
\* C35: a handler of a socket that is no longer the device's registered session
\* never marks closing, deletes or replaces the entry of the newer session and
\* never schedules a reconnect on its behalf.
C35_StaleHandlerHarmless ==
  [][\A s \in 1..Len(socks) :
       C35_StaleResume(s) => sessions' = sessions /\ timers' = timers]_vars

\* ------------------------------------------------ claims: evicted keys
\* a save of the closure of socket s writes the stored state
C34_SaveOf(s) == auth[s].saveTimer /\ ~auth'[s].saveTimer
\* C34: entries that clearSessionsForJids removed from the stored state are not
\* written back by a later save of in-memory key data that still holds them, and
\* a state loaded afterwards holds none of them.
C34_EvictionLasts ==
  [][\A s \in 1..Len(auth) :
       (auth[s].evicted /\ C34_SaveOf(s)) => ~waStore'[socks[s].dev]]_vars

\* ------------------------------------------------ claims: eviction by sender
C32_Cleared == store # IdleStore /\ store.pc = "cleared"
\* the non-empty user parts of the addresses given
C32_Parts == {UserPartOf(j) : j \in {store.jid, store.from}} \ {<<>>}
C32_Begins(id, pre) == Len(pre) <= Len(id) /\ \A i \in 1..Len(pre) : id[i] = pre[i]
C32_Holds(k, u) ==
  \E i \in 0..(Len(k) - Len(u)) : \A j \in 1..Len(u) : k[i + j] = u[j]
\* the entries the operation has to remove from a bucket
C32_ToRemove(b) ==
  IF b \in {"session", "sessions"}
  THEN {id \in store.before.keysData[b].ids :
          \E u \in C32_Parts :
            id = u \/ C32_Begins(id, u \o <<":">>) \/ C32_Begins(id, u \o <<".">>)}
  ELSE IF b \in {"sender-key", "sender-key-memory"}
  THEN {k \in store.before.keysData[b].ids : \E u \in C32_Parts : C32_Holds(k, u)}
  ELSE {}
\* C32: clearSenderInMemory removes from session/sessions exactly the entries
\* whose id is a given user part or begins with the user part and ':' or '.',
\* from the sender-key buckets exactly the entries whose key contains a given
\* user part, and leaves every other entry, every other bucket and creds as
\* they were.
C32_EvictsExactly ==
  C32_Cleared =>
    /\ \A b \in Buckets :
         /\ store.st.keysData[b].present = store.before.keysData[b].present
         /\ store.st.keysData[b].ids = store.before.keysData[b].ids \ C32_ToRemove(b)
    /\ store.st.creds = store.before.creds
\* user part a given: of the session entries a and ab, a is gone and ab is
\* kept; of the same keys in sender-key both are gone; pre-key has both
C32_Witness ==
  /\ C32_Cleared
  /\ C32_Parts = {<<"a">>}
  /\ \A b \in Buckets : store.before.keysData[b].present
  /\ store.before.keysData["session"].ids = {<<"a">>, <<"a", "b">>}
  /\ store.st.keysData["session"].ids = {<<"a", "b">>}
  /\ store.st.keysData["sender-key"].ids = {}
  /\ store.st.keysData["pre-key"].ids = {<<"a">>, <<"a", "b">>}

\* ------------------------------------------------ claims: handler errors
\* the handler of socket s takes the step named by the two positions
C31_Step(s, from, to) == auth[s].recon = from /\ auth'[s].recon = to
C31_ClearedBuckets == {"session", "sender-key", "sender-key-memory"}
\* the three buckets are empty in x, the rest of x is as it was before
C31_Evicted(x) ==
  /\ \A b \in C31_ClearedBuckets : x.keysData[b].ids = {}
  /\ \A b \in Buckets \ C31_ClearedBuckets : x.keysData[b] = store.before.keysData[b]
  /\ x.creds = store.before.creds
\* the clear has run: the key data in memory and the row are evicted
C31_Persisted ==
  (store # IdleStore /\ store.pc = "cleared") => C31_Evicted(store.st) /\ C31_Evicted(store.row)
C31_Steps ==
  \A s \in 1..Len(socks) :
    /\ (socks[s].phase = "open" /\ C31_Step(s, "none", "desync")) => UNCHANGED device
    /\ C31_Step(s, "update", "end") =>
         device'[socks[s].dev].lastError = "session_sync_error"
    /\ ( /\ C31_Step(s, "end", "none")
         /\ sessions[socks[s].dev].present /\ ~sessions[socks[s].dev].closing )
       => /\ socks'[s].phase = "ended"
          /\ ~sessions'[socks[s].dev].present
          /\ timers'[socks[s].dev].plain = timers[socks[s].dev].plain + 1
\* C31: on a desync error the entries of session, sender-key and
\* sender-key-memory are removed and the result is what the row holds, creds and
\* the other buckets being as before; the Device gets a session_sync_error
\* lastError; the registered session is torn down and a connect scheduled.
C31_DesyncHandled == []C31_Persisted /\ [][C31_Steps]_vars

\* a handler step that writes the lastError of a failed save or of an error
\* that is no desync
C33_Annotates(d) ==
  /\ device'[d] # device[d]
  /\ device'[d].lastError \in {"saveState", "messages.upsert"}
\* C33: a failed save of the auth state or a handler exception that is no
\* desync only writes Device.lastError: the session entry stays, the socket is
\* not ended, no reconnect is set, and no handler's promise is rejected.
C33_ErrorsOnlyAnnotate ==
  /\ [](\A s \in 1..Len(auth) : ~auth[s].rejected)
  /\ [][\A d \in Devices :
          C33_Annotates(d) =>
            /\ sessions' = sessions /\ socks' = socks /\ timers' = timers
            /\ device'[d].status = device[d].status /\ device'[d].qr = device[d].qr]_vars

====
